---- MODULE Spec2Model ----
(***************************************************************************)
(* gocomply: for each module of a list, discover the repository behind    *)
(* the module (lookup), fetch its license text (getLicense, tryGetLicense) *)
(* and print it.  Strings are TLA+ strings; a string is indexed from 1,    *)
(* Go's 0-based results (IndexByte) are kept 0-based.  The texts are       *)
(* ASCII.  A nil error is the empty string.                                *)
(***************************************************************************)
EXTENDS Integers, Sequences, FiniteSets, TLC

VARIABLES
    pc,          \* where main is: start, main, lookup, lookup_root, getLicense, blob, try, fetch, done, panic
    githubAuth,  \* the credentials, a BasicAuth
    modules,     \* the module list main iterates over
    mi,          \* index in modules of the module being processed (0 before the first)
    gi,          \* GoImport of the module being processed
    gs,          \* GoSource of the module being processed
    blobUrl,     \* t.Url of the tree entry that matched, in the API path
    fi,          \* index in files of the file name tryGetLicense is at
    ui,          \* index in licenseUrls of the URL tryGetLicense is at
    licenseUrls, \* the candidate URLs of the current file name
    decoder,     \* the decoder of the current file name: "identity" or "base64"
    license,     \* the text getLicense returned for the module being processed
    err,         \* the error lookup or getLicense returned for the module being processed
    stage,       \* what has returned for the module being processed: "", lookup, getLicense
    log,         \* the requests and sleeps of the module being processed, in order
    stdout,      \* the output sink: the texts printed, in order
    stderr,      \* the diagnostic sink: the texts printed, in order, each up to the error it ends with
    panicmsg,    \* the message main panicked with
    call,        \* a call of a parser or of the resolver on its own: the function and its arguments
    result,      \* what that call returned
    given        \* the list main was given: os.Args[1:] or, without arguments, the list of go list

vars == <<pc, githubAuth, modules, mi, gi, gs, blobUrl, fi, ui, licenseUrls,
          decoder, license, err, stage, log, stdout, stderr, panicmsg, call, result,
          given>>

-----------------------------------------------------------------------------
(* Bounds of the model. *)

\* longest list of modules given on the command line
MaxModules == 1

-----------------------------------------------------------------------------
(* package strings *)

\* Op of the value of v, v being evaluated once
Strict(v, Op(_)) == CHOOSE y \in {Op(w) : w \in {v}} : TRUE

Min(S) == CHOOSE x \in S : \A y \in S : x <= y
Max(S) == CHOOSE x \in S : \A y \in S : y <= x

\* the k-th smallest number of S
Nth(S, k) == CHOOSE x \in S : Cardinality({y \in S : y < x}) = k - 1

At(s, i) == IF i >= 1 /\ i <= Len(s) THEN SubSeq(s, i, i) ELSE ""

HasPrefix(s, prefix) ==
    Len(s) >= Len(prefix) /\ SubSeq(s, 1, Len(prefix)) = prefix

HasSuffix(s, suffix) ==
    Len(s) >= Len(suffix) /\ SubSeq(s, Len(s) - Len(suffix) + 1, Len(s)) = suffix

TrimPrefix(s, prefix) ==
    IF HasPrefix(s, prefix) THEN SubSeq(s, Len(prefix) + 1, Len(s)) ELSE s

\* a variant: the suffix stays
KeepSuffix(s, suffix) == s

TrimSuffix(s, suffix) ==
    IF HasSuffix(s, suffix) THEN SubSeq(s, 1, Len(s) - Len(suffix)) ELSE s

\* 0-based index of the first c in s, -1 when there is none
IndexByte(s, c) ==
    LET at == {i \in 1..Len(s) : At(s, i) = c}
    IN  IF at = {} THEN -1 ELSE Min(at) - 1

IsSpace(c) == c \in {" ", "\t", "\n", "\r", "\f"}

\* s without its leading and trailing white space
TrimSpace(s) ==
    LET black == {i \in 1..Len(s) : ~IsSpace(At(s, i))}
    IN  IF black = {} THEN "" ELSE SubSeq(s, Min(black), Max(black))

\* strings.SplitN(s, sep, n) for n > 0 and a separator of one character:
\* the parts between the first n-1 separators, the last part unsplit
SplitN(s, sep, n) ==
    LET at == {i \in 1..Len(s) : At(s, i) = sep}
        m == IF Cardinality(at) < n - 1 THEN Cardinality(at) ELSE n - 1
        cut(k) == IF k = 0 THEN 0 ELSE IF k = m + 1 THEN Len(s) + 1 ELSE Nth(at, k)
    IN  [k \in 1..(m + 1) |-> SubSeq(s, cut(k - 1) + 1, cut(k) - 1)]

\* strings.Split(s, sep): all the parts
Split(s, sep) == SplitN(s, sep, Len(s) + 1)

RECURSIVE JoinFrom(_, _, _)
JoinFrom(parts, sep, k) ==
    IF k > Len(parts) THEN ""
    ELSE IF k = Len(parts) THEN parts[k]
    ELSE parts[k] \o sep \o JoinFrom(parts, sep, k + 1)

Join(parts, sep) == JoinFrom(parts, sep, 1)

Upper == "ABCDEFGHIJKLMNOPQRSTUVWXYZ"
Lower == "abcdefghijklmnopqrstuvwxyz"
UpperLetters == {At(Upper, i) : i \in 1..Len(Upper)}
LowerOf == [c \in UpperLetters |-> At(Lower, IndexByte(Upper, c) + 1)]

LowerChar(c) == IF c \in UpperLetters THEN LowerOf[c] ELSE c

\* equality under case folding, of ASCII texts
EqualFold(s, t) ==
    Len(s) = Len(t) /\ \A i \in 1..Len(s) : LowerChar(At(s, i)) = LowerChar(At(t, i))

-----------------------------------------------------------------------------
(* encoding/base64, StdEncoding.DecodeString *)

B64Alphabet == "ABCDEFGHIJKLMNOPQRSTUVWXYZabcdefghijklmnopqrstuvwxyz0123456789+/"
B64Letters == {At(B64Alphabet, i) : i \in 1..Len(B64Alphabet)}
B64ValueOf == [c \in B64Letters |-> IndexByte(B64Alphabet, c)]

\* the 6 bits a character stands for, -1 for a character outside the alphabet
B64Value(c) == IF c \in B64Letters THEN B64ValueOf[c] ELSE -1

\* the characters of the codes 32..95 and of the codes 97..126, in order
AsciiLow == " !\"#$%&'()*+,-./0123456789:;<=>?@ABCDEFGHIJKLMNOPQRSTUVWXYZ[\\]^_"
AsciiHigh == "abcdefghijklmnopqrstuvwxyz{|}~"

\* string(bytes) for one byte; the texts of the model decode to these bytes only
Chr(b) ==
    IF b >= 32 /\ b <= 95 THEN At(AsciiLow, b - 31)
    ELSE IF b >= 97 /\ b <= 126 THEN At(AsciiHigh, b - 96)
    ELSE IF b = 10 THEN "\n"
    ELSE IF b = 9 THEN "\t"
    ELSE IF b = 13 THEN "\r"
    ELSE IF b = 12 THEN "\f"
    ELSE "?"

\* the decoder skips the line breaks of its input
RECURSIVE StripNewlines(_, _)
StripNewlines(s, i) ==
    IF i > Len(s) THEN ""
    ELSE IF At(s, i) \in {"\r", "\n"} THEN StripNewlines(s, i + 1)
    ELSE At(s, i) \o StripNewlines(s, i + 1)

B64Fail == [ok |-> FALSE, str |-> ""]

\* quanta of 4 characters from position i; '=' padding only in the last
\* quantum, nothing after it
RECURSIVE B64Quanta(_, _)
B64Quanta(t, i) ==
    IF i > Len(t) THEN [ok |-> TRUE, str |-> ""]
    ELSE IF i + 3 > Len(t) THEN B64Fail
    ELSE
        LET v1 == B64Value(At(t, i))
            v2 == B64Value(At(t, i + 1))
            v3 == B64Value(At(t, i + 2))
            v4 == B64Value(At(t, i + 3))
            b1 == v1 * 4 + (v2 \div 16)
            b2 == (v2 % 16) * 16 + (v3 \div 4)
            b3 == (v3 % 4) * 64 + v4
            last == i + 3 = Len(t)
        IN  IF v1 < 0 \/ v2 < 0 THEN B64Fail
            ELSE IF v3 >= 0 /\ v4 >= 0 THEN
                Strict(B64Quanta(t, i + 4),
                       LAMBDA r : IF r.ok
                                  THEN [ok |-> TRUE,
                                        str |-> Chr(b1) \o Chr(b2) \o Chr(b3) \o r.str]
                                  ELSE B64Fail)
            ELSE IF v3 >= 0 /\ At(t, i + 3) = "=" /\ last
                THEN [ok |-> TRUE, str |-> Chr(b1) \o Chr(b2)]
            ELSE IF At(t, i + 2) = "=" /\ At(t, i + 3) = "=" /\ last
                THEN [ok |-> TRUE, str |-> Chr(b1)]
            ELSE B64Fail

\* the text of CorruptInputError, without the byte offset it ends with
Base64DecodeString(s) ==
    Strict(StripNewlines(s, 1),
           LAMBDA t : Strict(B64Quanta(t, 1),
                             LAMBDA r : IF r.ok THEN [str |-> r.str, err |-> ""]
                                        ELSE [str |-> "", err |-> "illegal base64 data"]))

stringDecoderIdentity(str) == [str |-> str, err |-> ""]

stringDecoderBase64(str) == Base64DecodeString(str)

\* the call decoder(data), the decoder being one of the two functions above
Decode(dec, str) ==
    IF dec = "base64" THEN stringDecoderBase64(str) ELSE stringDecoderIdentity(str)

-----------------------------------------------------------------------------
(* The meta-tag extractor.  The three regular expressions are matched as   *)
(* package regexp matches them: the leftmost match, and at each choice the *)
(* first alternative that leads to a match (a greedy \S+ the longest).     *)
(* A position is an index from 1 into the text, 0 stands for no match.     *)

\* \s* at position i: the position after the run of whitespace
Ws(s, i) ==
    IF i = 0 THEN 0
    ELSE Min({j \in i..Len(s) : ~IsSpace(At(s, j))} \cup {Len(s) + 1})

\* \S* at position i: the position after the run of non-whitespace
NonWs(s, i) ==
    IF i = 0 THEN 0
    ELSE Min({j \in i..Len(s) : IsSpace(At(s, j))} \cup {Len(s) + 1})

\* a literal under (?i) at position i
Lit(s, i, l) ==
    IF i > 0 /\ i + Len(l) - 1 <= Len(s) /\ EqualFold(SubSeq(s, i, i + Len(l) - 1), l)
    THEN i + Len(l) ELSE 0

\* the literals pat[k], pat[k+1], ... in sequence, "" standing for \s*
RECURSIVE MatchSeq(_, _, _, _)
MatchSeq(s, i, pat, k) ==
    IF i = 0 \/ k > Len(pat) THEN i
    ELSE Strict(IF pat[k] = "" THEN Ws(s, i) ELSE Lit(s, i, pat[k]),
                LAMBDA j : MatchSeq(s, j, pat, k + 1))

\* \s*/?> at position i
CloseTag(s, i) ==
    Strict(Ws(s, i),
           LAMBDA q : IF Lit(s, q, "/>") # 0 THEN Lit(s, q, "/>") ELSE Lit(s, q, ">"))

NoMatch == [ok |-> FALSE, toks |-> <<>>, pos |-> 0]

\* the separator of two tokens at position e: \s+, or a single space
Separator(s, e, single) ==
    IF single THEN Lit(s, e, " ")
    ELSE Strict(Ws(s, e), LAMBDA q : IF q > e THEN q ELSE 0)

\* n times (\S+) and the separator after it, from p
RECURSIVE LeadTokens(_, _, _, _)
LeadTokens(s, p, n, single) ==
    IF p = 0 THEN NoMatch
    ELSE IF n = 0 THEN [ok |-> TRUE, toks |-> <<>>, pos |-> p]
    ELSE Strict(NonWs(s, p), LAMBDA e :
         Strict(Separator(s, e, single), LAMBDA q :
         IF e = p \/ q = 0 THEN NoMatch
         ELSE Strict(LeadTokens(s, q, n - 1, single), LAMBDA r :
              IF ~r.ok THEN NoMatch
              ELSE [ok |-> TRUE, toks |-> <<SubSeq(s, p, e - 1)>> \o r.toks,
                    pos |-> r.pos])))

\* the last (\S+), the closing quote, the rest of the tag: the token ends at
\* the last quote of its run after which the rest matches
LastToken(s, p, tail) ==
    IF p = 0 THEN NoMatch
    ELSE Strict({k \in (p + 1)..(NonWs(s, p) - 1) :
                    At(s, k) = "\"" /\ CloseTag(s, MatchSeq(s, k + 1, tail, 1)) # 0},
                LAMBDA ends :
                    IF ends = {} THEN NoMatch
                    ELSE [ok |-> TRUE, toks |-> <<SubSeq(s, p, Max(ends) - 1)>>,
                          pos |-> Max(ends)])

\* one expression at position i: head, n tokens, tail
MatchAt(s, i, head, n, single, tail) ==
    Strict(LeadTokens(s, MatchSeq(s, i, head, 1), n - 1, single), LAMBDA lead :
    IF ~lead.ok THEN NoMatch
    ELSE Strict(LastToken(s, lead.pos, tail), LAMBDA last :
         IF ~last.ok THEN NoMatch
         ELSE [ok |-> TRUE, toks |-> lead.toks \o last.toks, pos |-> i]))

\* FindStringSubmatch: the match at the leftmost position that has one
FindFrom(s, i, head, n, single, tail) ==
    Strict({j \in i..Len(s) : MatchAt(s, j, head, n, single, tail).ok},
           LAMBDA starts :
               IF starts = {} THEN NoMatch
               ELSE MatchAt(s, Min(starts), head, n, single, tail))

\* <\s*meta\s*name\s*=\s*"go-import"\s*content\s*=\s*"(\S+)\s+(\S+)\s+(\S+)"\s*/?>
regexpGoImport1(data) ==
    FindFrom(data, 1,
             <<"<", "", "meta", "", "name", "", "=", "", "\"go-import\"", "",
               "content", "", "=", "", "\"">>,
             3, FALSE, <<>>)

\* a variant: the source hut order is not recognised
regexpGoImportNameFirst(data) ==
    regexpGoImport1(data)

\* <\s*meta\s*content\s*=\s*"(\S+)\s+(\S+)\s+(\S+)"\s*name\s*=\s*"go-import"\s*/?>
regexpGoImport2(data) ==
    FindFrom(data, 1,
             <<"<", "", "meta", "", "content", "", "=", "", "\"">>,
             3, FALSE,
             <<"", "name", "", "=", "", "\"go-import\"">>)

\* <\s*meta\s*name\s*="go-source"\s*content\s*=\s*"(\S+) (\S+) (\S+) (\S+)"\s*/?>
regexpGoSource(data) ==
    FindFrom(data, 1,
             <<"<", "", "meta", "", "name", "", "=\"go-source\"", "",
               "content", "", "=", "", "\"">>,
             4, TRUE, <<>>)

GoImport(prefix, vcs, root) ==
    [ImportPrefix |-> prefix, Vcs |-> vcs, RepoRoot |-> root]

GoSource(prefix, home, dir, file) ==
    [ImportPrefix |-> prefix, Home |-> home, Directory |-> dir, File |-> file]

parseGoImport(data) ==
    Strict(regexpGoImport1(data), LAMBDA m1 :
    IF m1.ok THEN [gi |-> GoImport(m1.toks[1], m1.toks[2], m1.toks[3]), ok |-> TRUE]
    ELSE Strict(regexpGoImport2(data), LAMBDA m2 :
         IF m2.ok
         THEN [gi |-> GoImport(m2.toks[1], m2.toks[2], m2.toks[3]), ok |-> TRUE]
         ELSE [gi |-> GoImport("", "", ""), ok |-> FALSE]))

parseGoSource(data) ==
    Strict(regexpGoSource(data), LAMBDA m :
    IF m.ok
    THEN [gs |-> GoSource(m.toks[1], m.toks[2], m.toks[3], m.toks[4]), ok |-> TRUE]
    ELSE [gs |-> GoSource("", "", "", ""), ok |-> FALSE])

-----------------------------------------------------------------------------
(* The repository URL resolver *)

\* the result of resolveFileURL: the URLs, the decoder, the error
Resolved(urls, dec) == [urls |-> urls, decoder |-> dec, err |-> ""]
ResolveError(msg) == [urls |-> <<>>, decoder |-> "", err |-> msg]

\* a variant: the branch is all that follows the third "/"
gopkgTemplateWithPlaceholder(directory) ==
    LET parts == SplitN(TrimPrefix(directory, "https://github.com/"), "/", 4)
    IN  IF Len(parts) # 4 \/ IndexByte(parts[4], "{") < 0
        THEN [user |-> "", repo |-> "", branch |-> "", ok |-> FALSE]
        ELSE [user |-> parts[1], repo |-> parts[2], branch |-> parts[4], ok |-> TRUE]

\* user, repo and branch of the directory template of a gopkg.in module
gopkgTemplate(directory) ==
    LET dir == TrimPrefix(directory, "https://github.com/")
        parts == SplitN(dir, "/", 4)
        idx == IF Len(parts) = 4 THEN IndexByte(parts[4], "{") ELSE -1
    IN  IF Len(parts) # 4 \/ idx < 0
        THEN [user |-> "", repo |-> "", branch |-> "", ok |-> FALSE]
        ELSE [user |-> parts[1], repo |-> parts[2],
              branch |-> SubSeq(parts[4], 1, idx), ok |-> TRUE]

\* a variant: the provider is looked at before the vcs
resolveFileURLProviderFirst(g, src, file) ==
    IF ~\E h \in {"https://go.googlesource.com/", "https://git.sr.ht/", "https://gopkg.in/",
                   "https://github.com/", "https://gitlab.com/"} : HasPrefix(g.RepoRoot, h)
    THEN ResolveError("repo \"" \o g.RepoRoot \o "\" not supported (please open an issue)")
    ELSE IF g.Vcs # "git" THEN ResolveError("vcs \"" \o g.Vcs \o "\" not implemented")
    ELSE Resolved(<<g.RepoRoot \o "/" \o file>>, "identity")

resolveFileURL(g, src, file) ==
    LET vcs == g.Vcs
        repoRoot == g.RepoRoot
    IN  IF vcs # "git" THEN ResolveError("vcs \"" \o vcs \o "\" not implemented")
        ELSE IF HasPrefix(repoRoot, "https://go.googlesource.com/") THEN
            Resolved(<<repoRoot \o "/+/refs/heads/master/" \o file \o "?format=text">>,
                     "base64")
        ELSE IF HasPrefix(repoRoot, "https://git.sr.ht/") THEN
            Resolved(<<TrimSuffix(repoRoot, ".git") \o "/blob/master/" \o file>>,
                     "identity")
        ELSE IF HasPrefix(repoRoot, "https://gopkg.in/") THEN
            LET t == gopkgTemplate(src.Directory)
            IN  IF ~t.ok THEN ResolveError("gopkg.in parse error")
                ELSE Resolved(<<"https://raw.githubusercontent.com/" \o t.user \o "/"
                                \o t.repo \o "/" \o t.branch \o "/" \o file>>,
                              "identity")
        ELSE IF HasPrefix(repoRoot, "https://github.com/") THEN
            LET dir == TrimSuffix(TrimPrefix(repoRoot, "https://github.com/"), ".git")
            IN  Resolved(<<"https://raw.githubusercontent.com/" \o dir \o "/main/" \o file,
                           "https://raw.githubusercontent.com/" \o dir \o "/master/" \o file>>,
                         "identity")
        ELSE IF HasPrefix(repoRoot, "https://gitlab.com/") THEN
            LET dir == TrimSuffix(repoRoot, ".git")
            IN  Resolved(<<dir \o "/-/raw/main/" \o file,
                           dir \o "/-/raw/master/" \o file>>,
                         "identity")
        ELSE ResolveError("repo \"" \o repoRoot \o "\" not supported (please open an issue)")

-----------------------------------------------------------------------------
(* Program constants and types *)

divider == "--------------------------------------------------------------------------------"

httpLicenseFiles ==
    <<"NOTICE", "LICENSE", "LICENSE.txt", "LICENSE.md",
      "COPYING", "COPYING.txt", "COPYING.md">>

repoLicenseFiles ==
    <<"NOTICE", "NOTICE.txt", "LICENSE", "LICENSE.txt", "LICENSE.md",
      "LICENSE.markdown", "LICENSE.rst", "LICENCE", "LICENCE.txt", "LICENCE.md",
      "LICENCE.markdown", "LICENCE.rst", "COPYING", "COPYING.txt", "COPYRIGHT",
      "COPYRIGHT.txt", "MIT-LICENSE", "MIT-LICENSE.txt", "MIT-LICENCE",
      "MIT-LICENCE.txt">>

BasicAuth(username, token) == [Username |-> username, Token |-> token]

\* a variant of IsSet: credentials count as set when one of the fields is
IsSetEither(a) == a.Username # "" \/ a.Token # ""

IsSet(a) == a.Username # "" /\ a.Token # ""

NoGoImport == GoImport("", "", "")
NoGoSource == GoSource("", "", "", "")

-----------------------------------------------------------------------------
(* The world outside: the command line, the .netrc file, the remote hosts *)

\* the module paths of the model: one of 2 segments, a flag, one of 4 segments
ModuleArgs == <<"example.org/foo", "-v", "a.b/c/d/e", "github.com/golang/go">>

ModuleNames == {ModuleArgs[k] : k \in 1..Len(ModuleArgs)}

\* the lists of modules of the model: up to MaxModules of these paths, in this
\* order, the argument that starts with "-" not counted
ModuleLists ==
    { [k \in 1..Cardinality(S) |-> ModuleArgs[Nth(S, k)]] :
          S \in {T \in SUBSET (1..Len(ModuleArgs)) :
                    Cardinality({k \in T : ~HasPrefix(ModuleArgs[k], "-")}) <= MaxModules} }

\* what netrc.Parse and n.Machine("github.com") can give
NetrcFiles ==
    {<<"error", "", "">>, <<"absent", "", "">>, <<"nomachine", "", "">>}
        \cup {<<"machine", u, t>> : u \in {"", "user"}, t \in {"", "token"}}

\* the documents a host can answer a ?go-get=1 request with
DiscoveryDocs ==
    { "<meta name=\"go-import\" content=\"example.org/foo git https://github.com/example/foo\">",
      "<meta name=\"go-import\" content=\"a.b/t git https://go.googlesource.com/t\" />",
      "<meta name=\"go-import\" content=\"a.b/y.v2 git https://gopkg.in/y.v2\"><meta name=\"go-source\" content=\"a.b/y.v2 _ https://github.com/u/y/tree/v2.1{/dir} f\">",
      "<meta name=\"go-import\" content=\"a.b/y.v2 git https://gopkg.in/y.v2\">",
      "<meta name=\"go-import\" content=\"a.b/h hg https://github.com/u/h\">",
      "<meta name=\"go-import\" content=\"example.org/foo git\">",
      "<html><body>not a module</body></html>" }

\* parseGoImport and parseGoSource of these documents, computed once
GoImportOf == [d \in DiscoveryDocs |-> parseGoImport(d)]
GoSourceOf == [d \in DiscoveryDocs |-> parseGoSource(d)]

\* the texts a host can answer a request for a license file with
RawBodies == {" MIT License\n", "IE1JVAo="}

\* the texts api.github.com can answer with, and what json.Unmarshal makes of each
\* (ok: whether it parses; Tree, Content, Encoding: the fields it fills)
ApiDoc(text, ok, tree, content, encoding) ==
    [text |-> text, ok |-> ok, Tree |-> tree, Content |-> content, Encoding |-> encoding]

APITree(path, type, url) == [Path |-> path, Type |-> type, Url |-> url]

ApiDocs ==
    { ApiDoc("<html>rate limited</html>", FALSE, <<>>, "", ""),
      ApiDoc("{\"tree\":[]}", TRUE, <<>>, "", ""),
      ApiDoc("{\"tree\":[{\"path\":\"README.md\",\"type\":\"blob\",\"url\":\"https://api.github.com/b/0\"}]}",
             TRUE, <<APITree("README.md", "blob", "https://api.github.com/b/0")>>, "", ""),
      ApiDoc("{\"tree\":[{\"path\":\"LICENSE\",\"type\":\"tree\",\"url\":\"https://api.github.com/t/1\"},{\"path\":\"license.TXT\",\"type\":\"blob\",\"url\":\"https://api.github.com/b/2\"}]}",
             TRUE, <<APITree("LICENSE", "tree", "https://api.github.com/t/1"),
                     APITree("license.TXT", "blob", "https://api.github.com/b/2")>>, "", ""),
      ApiDoc("{\"tree\":[{\"path\":\"LICENSE\",\"type\":\"blob\",\"url\":\"https://api.github.com/b/3\"},{\"path\":\"NOTICE\",\"type\":\"blob\",\"url\":\"https://api.github.com/b/4\"}]}",
             TRUE, <<APITree("LICENSE", "blob", "https://api.github.com/b/3"),
                     APITree("NOTICE", "blob", "https://api.github.com/b/4")>>, "", ""),
      ApiDoc("{\"tree\":[{\"path\":\"COPYING\",\"type\":\"blob\",\"url\":\"https://api.github.com/repos/example/foo/git/trees/HEAD\"}]}",
             TRUE, <<APITree("COPYING", "blob",
                             "https://api.github.com/repos/example/foo/git/trees/HEAD")>>,
             "", ""),
      ApiDoc("{\"content\":\" MIT License\\n\",\"encoding\":\"utf-8\"}",
             TRUE, <<>>, " MIT License\n", "utf-8"),
      ApiDoc("{\"content\":\"IE1J\\nVAo=\\n\",\"encoding\":\"base64\"}",
             TRUE, <<>>, "IE1J\nVAo=\n", "base64"),
      ApiDoc("{\"content\":\"IE1JV\",\"encoding\":\"BASE64\"}",
             TRUE, <<>>, "IE1JV", "BASE64"),
      ApiDoc("{\"content\":\"MIT\",\"encoding\":\"latin1\"}",
             TRUE, <<>>, "MIT", "latin1") }

ApiTexts == {d.text : d \in ApiDocs}

\* json.Unmarshal of one of the texts above
Unmarshal(data) == CHOOSE d \in ApiDocs : d.text = data

\* the errors of httpGet: a status other than 200, and two errors of client.Do
HttpErrors(rsc) ==
    { "http status code 404 when downloading \"" \o rsc \o "\"",
      "Get \"" \o rsc \o "\": dial tcp: connection refused",
      "Get \"" \o rsc \o "\": context deadline exceeded" }

\* a variant: the header is set whenever auth is not given or is set
SetsBasicAuthWithoutAuth(auth) == Len(auth) = 0 \/ IsSet(auth[1])

\* whether httpGet sets the Authorization header; auth is <<>> for nil
SetsBasicAuth(auth) == Len(auth) > 0 /\ IsSet(auth[1])

\* the results httpGet(rsc, auth) can have, the host answering with one of bodies
httpGet(rsc, auth, bodies) ==
    {[data |-> b, err |-> "", auth |-> SetsBasicAuth(auth)] : b \in bodies}
        \cup {[data |-> "", err |-> e, auth |-> SetsBasicAuth(auth)] : e \in HttpErrors(rsc)}

\* entries of log: a call of httpGet by the function by, with its result r
Request(by, rsc, r) ==
    [op |-> "GET", by |-> by, url |-> rsc, auth |-> r.auth, ok |-> (r.err = ""),
     body |-> r.data, ms |-> 0]

\* a variant: no time passes
SleepNot(by, ms) ==
    [op |-> "sleep", by |-> by, url |-> "", auth |-> FALSE, ok |-> TRUE,
     body |-> "", ms |-> 0]

\* entries of log: a call of time.Sleep by the function by
Sleep(by, ms) ==
    [op |-> "sleep", by |-> by, url |-> "", auth |-> FALSE, ok |-> TRUE,
     body |-> "", ms |-> ms]

-----------------------------------------------------------------------------
(* Variants of the decisions below, each wrong in one respect.  A property  *)
(* that speaks of a decision has to tell the decision from its variant.     *)

\* lookup giving up on a transport failure instead of guessing the repository
lookupResultGivesUp(m, r) ==
    IF r.err # ""
    THEN [gi |-> GoImport("", "", ""), gs |-> GoSource("", "", "", ""), err |-> r.err]
    ELSE LET p == GoImportOf[r.data]
         IN  IF ~p.ok
             THEN [gi |-> p.gi, gs |-> GoSource("", "", "", ""),
                   err |-> "unrecognised import \"" \o m \o "\" (no go-import meta tags)"]
             ELSE [gi |-> p.gi, gs |-> GoSourceOf[r.data].gs, err |-> ""]

\* lookup guessing the repository also when the response holds no directive
lookupResultGuesses(m, r) ==
    IF r.err # "" \/ ~GoImportOf[r.data].ok
    THEN [gi |-> GoImport(m, "git", "https://" \o m \o ".git"),
          gs |-> GoSource("", "", "", ""), err |-> ""]
    ELSE [gi |-> GoImportOf[r.data].gi, gs |-> GoSourceOf[r.data].gs, err |-> ""]

\* lookup asking the module root whatever the first response was
lookupRetriesAfterSuccess(m, r) == Len(Split(m, "/")) > 3

\* lookup asking the module root also when the response holds no directive
lookupRetriesOnParseFailure(m, r) ==
    (r.err # "" \/ ~GoImportOf[r.data].ok) /\ Len(Split(m, "/")) > 3

\* getLicense returning every error of the API
apiVerdictNeverFallsBack(a) ==
    IF a.err = "" THEN [do |-> "return", license |-> a.license, err |-> ""]
    ELSE [do |-> "return", license |-> "", err |-> "api.github.com error: " \o a.err]

\* getLicense falling back on every error of the API
apiVerdictAlwaysFallsBack(a) ==
    IF a.err = "" THEN [do |-> "return", license |-> a.license, err |-> ""]
    ELSE [do |-> "fallback", license |-> "", err |-> "api.github.com error: " \o a.err]

\* getLicense taking a blob it cannot decode for a missing license
blobResultHardFailure(g, r) ==
    IF r.err # ""
    THEN [license |-> "", missing |-> FALSE,
          err |-> "trouble getting blob for " \o g.RepoRoot \o ": " \o r.err, blob |-> ""]
    ELSE Strict(Unmarshal(r.data), LAMBDA blob :
         IF ~blob.ok
         THEN [license |-> "", missing |-> FALSE,
               err |-> "json decode error: invalid character", blob |-> ""]
         ELSE IF EqualFold(blob.Encoding, "utf-8")
         THEN [license |-> TrimSpace(blob.Content), missing |-> FALSE, err |-> "",
               blob |-> ""]
         ELSE IF EqualFold(blob.Encoding, "base64")
         THEN Strict(Base64DecodeString(blob.Content), LAMBDA raw :
              IF raw.err # ""
              THEN [license |-> "", missing |-> TRUE,
                    err |-> "base64 decode error: " \o raw.err, blob |-> ""]
              ELSE [license |-> TrimSpace(raw.str), missing |-> FALSE, err |-> "",
                    blob |-> ""])
         ELSE [license |-> "", missing |-> TRUE,
               err |-> "unknown encoding type \"" \o blob.Encoding \o "\"", blob |-> ""])

\* tryGetLicense going on to the next candidate after a license was fetched
fetchResultKeepsGoing(m, licenseUrl, dec, r) ==
    IF r.err # "" THEN [do |-> "continue", license |-> "", err |-> ""]
    ELSE Strict(Decode(dec, r.data), LAMBDA d :
         IF d.err # ""
         THEN [do |-> "return", license |-> "",
               err |-> "error decoding \"" \o licenseUrl \o "\": " \o d.err]
         ELSE [do |-> "continue", license |-> "", err |-> ""])

\* tryGetLicense returning the error of a failed request
fetchResultFailsOnError(m, licenseUrl, dec, r) ==
    IF r.err # "" THEN [do |-> "return", license |-> "", err |-> r.err]
    ELSE Strict(Decode(dec, r.data), LAMBDA d :
         IF d.err # ""
         THEN [do |-> "return", license |-> "",
               err |-> "error decoding \"" \o licenseUrl \o "\": " \o d.err]
         ELSE [do |-> "return", license |-> TrimSpace(d.str), err |-> ""])

\* tryGetLicense going on to the next candidate after a content it cannot decode
fetchResultSkipsUndecodable(m, licenseUrl, dec, r) ==
    IF r.err # "" THEN [do |-> "continue", license |-> "", err |-> ""]
    ELSE Strict(Decode(dec, r.data), LAMBDA d :
         IF d.err # ""
         THEN [do |-> "continue", license |-> "", err |-> ""]
         ELSE [do |-> "return", license |-> TrimSpace(d.str), err |-> ""])

\* tryGetLicense going on to the next file name after the resolver failed
resolveVerdictNextFile(m, res) == [do |-> "fetch", err |-> ""]

\* the error of exhaustion without the module
noLicenseFoundUnnamed(m) == "no license found"

-----------------------------------------------------------------------------
(* The decisions of lookup, getLicense and tryGetLicense, as functions of   *)
(* the response they are taken on                                          *)

module == modules[mi]

\* the URL of the ?go-get=1 request for a path
DiscoveryURL(path) == "https://" \o path \o "?go-get=1"

\* a variant: the second request is for the module again
moduleRootSame(m) ==
    IF Len(Split(m, "/")) > 3 THEN <<m>> ELSE <<>>

\* the first 3 segments of a path of more than 3, else nothing
moduleRoot(m) ==
    LET parts == Split(m, "/")
    IN  IF Len(parts) > 3 THEN <<Join(SubSeq(parts, 1, 3), "/")>> ELSE <<>>

\* lookup, once no request is left to make: r the result of the last httpGet
lookupResult(m, r) ==
    IF r.err # ""
    THEN [gi |-> GoImport(m, "git", "https://" \o m \o ".git"), gs |-> NoGoSource,
          err |-> ""]
    ELSE LET p == GoImportOf[r.data]
         IN  IF ~p.ok
             THEN [gi |-> p.gi, gs |-> NoGoSource,
                   err |-> "unrecognised import \"" \o m \o "\" (no go-import meta tags)"]
             ELSE [gi |-> p.gi, gs |-> GoSourceOf[r.data].gs, err |-> ""]

\* whether lookup makes the request for the module root after the result r
lookupRetries(m, r) == r.err # "" /\ Len(moduleRoot(m)) > 0

\* whether getLicense tries the API
useAPI(g, auth) ==
    g.Vcs = "git" /\ HasPrefix(g.RepoRoot, "https://github.com/") /\ IsSet(auth)

TreeURL(g) ==
    "https://api.github.com/repos/"
        \o TrimSuffix(TrimPrefix(g.RepoRoot, "https://github.com/"), ".git")
        \o "/git/trees/HEAD"

\* a variant: the type of the entry is not looked at
treeMatchesAnyType(t) ==
    \E n \in 1..Len(repoLicenseFiles) : EqualFold(t.Path, repoLicenseFiles[n])

\* whether a tree entry is a license file
treeMatches(t) ==
    t.Type = "blob"
        /\ \E n \in 1..Len(repoLicenseFiles) : EqualFold(t.Path, repoLicenseFiles[n])

\* the result of the inner function of getLicense up to the listing:
\* blob is the URL of the entry it goes on with
ApiResult(lic, missing, e, blob) ==
    [license |-> lic, missing |-> missing, err |-> e, blob |-> blob]

listingResult(g, r) ==
    IF r.err # ""
    THEN ApiResult("", FALSE,
                   "trouble getting listing for " \o g.RepoRoot \o ": " \o r.err, "")
    ELSE Strict(Unmarshal(r.data), LAMBDA response :
         IF ~response.ok
         THEN ApiResult("", FALSE, "json decode error: invalid character", "")
         ELSE Strict({k \in 1..Len(response.Tree) : treeMatches(response.Tree[k])},
                     LAMBDA hits :
                         IF hits = {} THEN ApiResult("", TRUE, "no license found", "")
                         ELSE ApiResult("", FALSE, "", response.Tree[Min(hits)].Url)))

\* the result of the inner function of getLicense from the response for the blob
blobResult(g, r) ==
    IF r.err # ""
    THEN ApiResult("", FALSE,
                   "trouble getting blob for " \o g.RepoRoot \o ": " \o r.err, "")
    ELSE Strict(Unmarshal(r.data), LAMBDA blob :
         IF ~blob.ok
         THEN ApiResult("", FALSE, "json decode error: invalid character", "")
         ELSE IF EqualFold(blob.Encoding, "utf-8")
         THEN ApiResult(TrimSpace(blob.Content), FALSE, "", "")
         ELSE IF EqualFold(blob.Encoding, "base64")
         THEN Strict(Base64DecodeString(blob.Content), LAMBDA raw :
              IF raw.err # ""
              THEN ApiResult("", FALSE, "base64 decode error: " \o raw.err, "")
              ELSE ApiResult(TrimSpace(raw.str), FALSE, "", ""))
         ELSE ApiResult("", FALSE,
                        "unknown encoding type \"" \o blob.Encoding \o "\"", ""))

\* what getLicense does with the result of its inner function:
\* "return" (license or error), or "fallback" to tryGetLicense
apiVerdict(a) ==
    IF a.err = "" THEN [do |-> "return", license |-> a.license, err |-> ""]
    ELSE IF a.missing
    THEN [do |-> "return", license |-> "", err |-> "api.github.com error: " \o a.err]
    ELSE [do |-> "fallback", license |-> "", err |-> "api.github.com error: " \o a.err]

\* one candidate URL of tryGetLicense: next candidate, or return
fetchResult(m, licenseUrl, dec, r) ==
    IF r.err # "" THEN [do |-> "continue", license |-> "", err |-> ""]
    ELSE Strict(Decode(dec, r.data), LAMBDA d :
         IF d.err # ""
         THEN [do |-> "return", license |-> "",
               err |-> "error decoding \"" \o licenseUrl \o "\": " \o d.err]
         ELSE [do |-> "return", license |-> TrimSpace(d.str), err |-> ""])

\* what tryGetLicense does with the result of the resolver for a file name
resolveVerdict(m, res) ==
    IF res.err # ""
    THEN [do |-> "return", err |-> "no known license URL for module \"" \o m \o "\": "
                                       \o res.err]
    ELSE [do |-> "fetch", err |-> ""]

noLicenseFound(m) == "no license found for module \"" \o m \o "\""

-----------------------------------------------------------------------------
(* The parsers and the resolver called on their own: the arguments *)

\* a meta tag as a host can write it: the directive name, the content tokens,
\* content before name or after, mixed case of the tag and attribute names,
\* the white space pad around "=" and the delimiters, the white space sep
\* between the tokens, the closing form, the text of a further attribute after
\* the two
Directive(name, toks, reversed, mixed, pad, sep, close, extra) ==
    LET nameAttr == (IF mixed THEN "NaMe" ELSE "name") \o pad \o "=" \o pad
                        \o "\"" \o name \o "\""
        contentAttr == (IF mixed THEN "CoNtEnT" ELSE "content") \o pad \o "=" \o pad
                           \o "\"" \o Join(toks, sep) \o "\""
    IN  "<" \o pad \o (IF mixed THEN "MeTa" ELSE "meta") \o " " \o pad
            \o (IF reversed THEN contentAttr \o " " \o pad \o nameAttr
                ELSE nameAttr \o " " \o pad \o contentAttr)
            \o extra \o pad \o close

\* the content tokens of the directives of the calls
ImportTokens ==
    { <<"example.org/foo", "git", "https://github.com/example/foo">>,
      <<"a.b/C", "hg", "https://x.y/Z.git">> }

SourceTokens ==
    { <<"a", "b", "c", "d">>,
      <<"gopkg.in/y.v2", "_", "https://github.com/u/y/tree/v2.1{/dir}",
        "https://github.com/u/y/blob/v2.1{/dir}/{file}#L{line}">> }

\* content with a token too few or a token too many
ShortImportTokens ==
    { <<"a.b/C", "hg">>, <<"a.b/C", "hg", "https://x.y/Z.git", "w">> }

ShortSourceTokens ==
    { <<"a", "b", "c">>, <<"a", "b", "c", "d", "e">> }

Extras == {"", " lang=\"en\""}

Pads == {"", " \n  "}
Seps == {" ", "  "}
Closings == {">", "/>"}

NoCall ==
    [fn |-> "", data |-> "", toks |-> <<>>, reversed |-> FALSE, mixed |-> FALSE,
     pad |-> "", sep |-> "", close |-> "", extra |-> "",
     host |-> "", path |-> "", dotgit |-> FALSE, g |-> NoGoImport, src |-> NoGoSource,
     file |-> ""]

NoResult == [ok |-> FALSE]

\* the calls of a parser: the document holds one directive
ParserCalls(fn, name, tokens) ==
    { [NoCall EXCEPT !.fn = fn, !.toks = t, !.reversed = r, !.mixed = m, !.pad = p,
                     !.sep = w, !.close = c,
                     !.data = "<html>" \o Directive(name, t, r, m, p, w, c, "")
                                  \o "</html>"] :
          t \in tokens, r \in BOOLEAN, m \in BOOLEAN, p \in Pads, w \in Seps,
          c \in Closings }

\* the calls of a parser on a directive of another number of tokens, which a
\* further attribute can follow
ShortCalls(fn, name, tokens) ==
    { [NoCall EXCEPT !.fn = fn, !.toks = t, !.reversed = r, !.sep = " ", !.close = c,
                     !.extra = x,
                     !.data = "<html>" \o Directive(name, t, r, FALSE, "", " ", c, x)
                                  \o "</html>"] :
          t \in tokens, r \in BOOLEAN, c \in Closings, x \in Extras }

\* the hosts, the directory templates and the file names of the calls of the
\* resolver
Hosts ==
    { "https://go.googlesource.com/", "https://git.sr.ht/", "https://gopkg.in/",
      "https://github.com/", "https://gitlab.com/", "https://example.org/" }

Templates ==
    { "", "https://github.com/u/y/tree/v2.1{/dir}", "https://github.com/O/R/tree/v3{/dir}",
      "https://gitlab.com/u/y/tree/v2.1{/dir}",
      "https://github.com/u/y{/dir}", "https://github.com/u/y/tree/v2.1" }

FileNames == {"NOTICE", "LICENSE.md"}

ResolverCalls ==
    { [NoCall EXCEPT !.fn = "resolveFileURL", !.host = h, !.path = "u/y.v2",
                     !.dotgit = d, !.file = f,
                     !.g = GoImport("a.b/y.v2", v,
                                    h \o "u/y.v2" \o (IF d THEN ".git" ELSE "")),
                     !.src = IF t = "" THEN NoGoSource
                             ELSE GoSource("a.b/y.v2", "_", t, "_")] :
          h \in Hosts, d \in BOOLEAN, v \in {"git", "hg"}, t \in Templates,
          f \in FileNames }

Calls ==
    ParserCalls("parseGoImport", "go-import", ImportTokens)
        \cup ParserCalls("parseGoSource", "go-source", SourceTokens)
        \cup ShortCalls("parseGoImport", "go-import", ShortImportTokens)
        \cup ShortCalls("parseGoSource", "go-source", ShortSourceTokens)
        \cup ResolverCalls

-----------------------------------------------------------------------------
(* The program *)

Init ==
    /\ pc = "start"
    /\ githubAuth = BasicAuth("", "")
    /\ modules = <<>>
    /\ mi = 0
    /\ gi = NoGoImport
    /\ gs = NoGoSource
    /\ blobUrl = ""
    /\ fi = 0
    /\ ui = 0
    /\ licenseUrls = <<>>
    /\ decoder = ""
    /\ license = ""
    /\ err = ""
    /\ stage = ""
    /\ log = <<>>
    /\ stdout = <<>>
    /\ stderr = <<>>
    /\ panicmsg = ""
    /\ call = NoCall
    /\ result = NoResult
    /\ given = <<>>

\* parseNetrc: the credentials after it
parseNetrc(n) == IF n[1] = "machine" THEN BasicAuth(n[2], n[3]) ELSE githubAuth

noCredentialsWarning ==
    "warning: no credentials set for GitHub API\n -- gocomply may be slower and less accurate\n"

\* a variant: the standard library is appended unless the list has it
StartAppendsIfAbsent ==
    /\ pc = "start"
    /\ \E n \in NetrcFiles, args \in ModuleLists, listed \in ModuleLists, fails \in BOOLEAN :
        LET list == IF Len(args) > 0 THEN args ELSE listed
        IN  /\ githubAuth' = parseNetrc(n)
            /\ given' = IF Len(args) = 0 /\ fails THEN <<>> ELSE list
            /\ stderr' = IF ~IsSet(parseNetrc(n)) THEN <<noCredentialsWarning>> ELSE <<>>
            /\ IF Len(args) = 0 /\ fails
               THEN /\ modules' = <<>>
                    /\ pc' = "panic"
                    /\ panicmsg' = "error: go list error"
               ELSE /\ modules' = IF \E k \in 1..Len(list) : list[k] = "github.com/golang/go"
                                  THEN list
                                  ELSE Append(list, "github.com/golang/go")
                    /\ pc' = "main"
                    /\ UNCHANGED panicmsg
    /\ UNCHANGED <<call, result, mi, gi, gs, blobUrl, fi, ui, licenseUrls, decoder, license, err,
                   stage, log, stdout>>

\* main up to its loop: the credentials, the warning, the list of modules
\* (args: os.Args[1:]; listed, fails: what listModules returns when there are none)
Start ==
    /\ pc = "start"
    /\ \E n \in NetrcFiles, args \in ModuleLists, listed \in ModuleLists, fails \in BOOLEAN :
        /\ githubAuth' = parseNetrc(n)
        /\ stderr' = IF ~IsSet(parseNetrc(n)) THEN <<noCredentialsWarning>> ELSE <<>>
        /\ given' = IF Len(args) > 0 THEN args ELSE IF fails THEN <<>> ELSE listed
        /\ IF Len(args) > 0
           THEN /\ modules' = Append(args, "github.com/golang/go")
                /\ pc' = "main"
                /\ UNCHANGED panicmsg
           ELSE IF fails
           THEN /\ modules' = <<>>
                /\ pc' = "panic"
                /\ panicmsg' = "error: go list error"
           ELSE /\ modules' = Append(listed, "github.com/golang/go")
                /\ pc' = "main"
                /\ UNCHANGED panicmsg
    /\ UNCHANGED <<call, result, mi, gi, gs, blobUrl, fi, ui, licenseUrls, decoder, license, err,
                   stage, log, stdout>>

\* a variant: the variables of the body of the loop are declared before the
\* loop, and what the last module left in them stays
NextModuleKeepsVariables ==
    /\ pc = "main"
    /\ IF mi = Len(modules)
       THEN /\ pc' = "done"
            /\ UNCHANGED <<mi, stderr, panicmsg>>
       ELSE /\ mi' = mi + 1
            /\ stderr' = Append(stderr, "> " \o modules[mi + 1] \o "\n")
            /\ IF HasPrefix(modules[mi + 1], "-")
               THEN /\ pc' = "panic"
                    /\ panicmsg' = "error: unrecognised argument \"" \o modules[mi + 1] \o "\""
               ELSE /\ pc' = "lookup"
                    /\ UNCHANGED panicmsg
    /\ stage' = ""
    /\ log' = <<>>
    /\ UNCHANGED <<call, result, given, githubAuth, modules, stdout, gi, gs, blobUrl, fi, ui,
                   licenseUrls, decoder, license, err>>

\* a variant: an argument that starts with "-" is skipped like a module
\* whose lookup failed
NextModuleSkipsArgument ==
    /\ pc = "main"
    /\ IF mi = Len(modules)
       THEN /\ pc' = "done"
            /\ UNCHANGED <<mi, stderr>>
       ELSE /\ mi' = mi + 1
            /\ IF HasPrefix(modules[mi + 1], "-")
               THEN /\ pc' = "main"
                    /\ stderr' = stderr \o <<"> " \o modules[mi + 1] \o "\n",
                                             "unable to lookup module \"" \o modules[mi + 1]
                                                 \o "\": ">>
               ELSE /\ pc' = "lookup"
                    /\ stderr' = Append(stderr, "> " \o modules[mi + 1] \o "\n")
    /\ gi' = NoGoImport
    /\ gs' = NoGoSource
    /\ blobUrl' = ""
    /\ fi' = 0
    /\ ui' = 0
    /\ licenseUrls' = <<>>
    /\ decoder' = ""
    /\ license' = ""
    /\ err' = ""
    /\ stage' = ""
    /\ log' = <<>>
    /\ UNCHANGED <<call, result, given, githubAuth, modules, stdout, panicmsg>>

\* the head of the loop of main: the next module, or the end; what the body of
\* the loop left in its variables for the last module is gone
NextModule ==
    /\ pc = "main"
    /\ IF mi = Len(modules)
       THEN /\ pc' = "done"
            /\ UNCHANGED <<mi, stderr, panicmsg>>
       ELSE /\ mi' = mi + 1
            /\ stderr' = Append(stderr, "> " \o modules[mi + 1] \o "\n")
            /\ IF HasPrefix(modules[mi + 1], "-")
               THEN /\ pc' = "panic"
                    /\ panicmsg' = "error: unrecognised argument \"" \o modules[mi + 1] \o "\""
               ELSE /\ pc' = "lookup"
                    /\ UNCHANGED panicmsg
    /\ gi' = NoGoImport
    /\ gs' = NoGoSource
    /\ blobUrl' = ""
    /\ fi' = 0
    /\ ui' = 0
    /\ licenseUrls' = <<>>
    /\ decoder' = ""
    /\ license' = ""
    /\ err' = ""
    /\ stage' = ""
    /\ log' = <<>>
    /\ UNCHANGED <<call, result, given, githubAuth, modules, stdout>>

\* lookup returns res to main, which goes on to getLicense or to the next module
LookupReturns(res) ==
    /\ gi' = res.gi
    /\ gs' = res.gs
    /\ err' = res.err
    /\ stage' = "lookup"
    /\ IF res.err # ""
       THEN /\ stderr' = Append(stderr, "unable to lookup module \"" \o module \o "\": ")
            /\ pc' = "main"
       ELSE /\ pc' = "getLicense"
            /\ UNCHANGED stderr

\* lookup: the request for the path of the module
Lookup ==
    /\ pc = "lookup"
    /\ \E r \in httpGet(DiscoveryURL(module), <<>>, DiscoveryDocs) :
        /\ log' = Append(log, Request("lookup", DiscoveryURL(module), r))
        /\ IF lookupRetries(module, r)
           THEN /\ pc' = "lookup_root"
                /\ UNCHANGED <<gi, gs, err, stage, stderr>>
           ELSE LookupReturns(lookupResult(module, r))
    /\ UNCHANGED <<call, result, given, githubAuth, modules, mi, blobUrl, fi, ui, licenseUrls, decoder,
                   license, stdout, panicmsg>>

\* lookup: the request for the module root
LookupRoot ==
    /\ pc = "lookup_root"
    /\ \E r \in httpGet(DiscoveryURL(moduleRoot(module)[1]), <<>>, DiscoveryDocs) :
        /\ log' = Append(log, Request("lookup", DiscoveryURL(moduleRoot(module)[1]), r))
        /\ LookupReturns(lookupResult(module, r))
    /\ UNCHANGED <<call, result, given, githubAuth, modules, mi, blobUrl, fi, ui, licenseUrls, decoder,
                   license, stdout, panicmsg>>

\* a variant of outputBlock: no blank line after the module
outputBlockNoBlankLine(m, lic) == m \o "\n" \o lic \o "\n\n" \o divider \o "\n\n"

\* the block main prints for a module and its license
outputBlock(m, lic) == m \o "\n\n" \o lic \o "\n\n" \o divider \o "\n\n"

\* getLicense returns to main, which prints the block or the diagnostic
LicenseReturns(lic, e) ==
    /\ license' = lic
    /\ err' = e
    /\ stage' = "getLicense"
    /\ pc' = "main"
    /\ IF e # ""
       THEN /\ stderr' = Append(stderr, "unable to find a license for module \""
                                            \o module \o "\": ")
            /\ UNCHANGED stdout
       ELSE /\ stdout' = Append(stdout, outputBlock(module, lic))
            /\ UNCHANGED stderr

\* getLicense falls back to tryGetLicense after the API failed with e
FallsBack(e) ==
    /\ stderr' = Append(stderr, "api.github.com error: ")
    /\ pc' = "try"
    /\ fi' = 1
    /\ UNCHANGED <<license, err, stage, stdout>>

\* getLicense: the choice of the path, and on the API path the request for the tree
GetLicense ==
    /\ pc = "getLicense"
    /\ IF useAPI(gi, githubAuth)
       THEN \E r \in httpGet(TreeURL(gi), <<githubAuth>>, ApiTexts) :
            LET a == listingResult(gi, r)
                v == apiVerdict(a)
            IN  /\ log' = log \o <<Sleep("getLicense", 2460), Request("getLicense", TreeURL(gi), r)>>
                /\ IF a.blob # ""
                   THEN /\ pc' = "blob"
                        /\ blobUrl' = a.blob
                        /\ UNCHANGED <<fi, license, err, stage, stdout, stderr>>
                   ELSE IF v.do = "fallback"
                   THEN /\ FallsBack(v.err)
                        /\ UNCHANGED blobUrl
                   ELSE /\ LicenseReturns(v.license, v.err)
                        /\ UNCHANGED <<blobUrl, fi>>
       ELSE /\ pc' = "try"
            /\ fi' = 1
            /\ UNCHANGED <<log, blobUrl, license, err, stage, stdout, stderr>>
    /\ UNCHANGED <<call, result, given, githubAuth, modules, mi, gi, gs, ui, licenseUrls, decoder, panicmsg>>

\* getLicense on the API path: the request for the blob
GetBlob ==
    /\ pc = "blob"
    /\ \E r \in httpGet(blobUrl, <<githubAuth>>, ApiTexts) :
        LET v == apiVerdict(blobResult(gi, r))
        IN  /\ log' = Append(log, Request("getLicense", blobUrl, r))
            /\ IF v.do = "fallback"
               THEN FallsBack(v.err)
               ELSE /\ LicenseReturns(v.license, v.err)
                    /\ UNCHANGED fi
    /\ UNCHANGED <<call, result, given, githubAuth, modules, mi, gi, gs, blobUrl, ui, licenseUrls, decoder,
                   panicmsg>>

\* tryGetLicense: the head of the loop over the file names, the delay, the resolver
TryFile ==
    /\ pc = "try"
    /\ IF fi > Len(httpLicenseFiles)
       THEN /\ LicenseReturns("", noLicenseFound(module))
            /\ UNCHANGED <<log, fi, ui, licenseUrls, decoder>>
       ELSE LET res == resolveFileURL(gi, gs, httpLicenseFiles[fi])
                v == resolveVerdict(module, res)
            IN  /\ log' = Append(log, Sleep("tryGetLicense", 1000))
                /\ IF v.do = "return"
                   THEN /\ LicenseReturns("", v.err)
                        /\ UNCHANGED <<fi, ui, licenseUrls, decoder>>
                   ELSE /\ licenseUrls' = res.urls
                        /\ decoder' = res.decoder
                        /\ ui' = 1
                        /\ pc' = IF Len(res.urls) = 0 THEN "try" ELSE "fetch"
                        /\ fi' = IF Len(res.urls) = 0 THEN fi + 1 ELSE fi
                        /\ UNCHANGED <<license, err, stage, stdout, stderr>>
    /\ UNCHANGED <<call, result, given, githubAuth, modules, mi, gi, gs, blobUrl, panicmsg>>

\* tryGetLicense: the request for one candidate URL
Fetch ==
    /\ pc = "fetch"
    /\ \E r \in httpGet(licenseUrls[ui], <<>>, RawBodies) :
        LET v == fetchResult(module, licenseUrls[ui], decoder, r)
        IN  /\ log' = Append(log, Request("tryGetLicense", licenseUrls[ui], r))
            /\ IF v.do = "continue"
               THEN /\ IF ui < Len(licenseUrls)
                       THEN /\ ui' = ui + 1
                            /\ UNCHANGED <<pc, fi>>
                       ELSE /\ pc' = "try"
                            /\ fi' = fi + 1
                            /\ UNCHANGED ui
                    /\ UNCHANGED <<license, err, stage, stdout, stderr>>
               ELSE /\ LicenseReturns(v.license, v.err)
                    /\ UNCHANGED <<fi, ui>>
    /\ UNCHANGED <<call, result, given, githubAuth, modules, mi, gi, gs, blobUrl, licenseUrls, decoder,
                   panicmsg>>

Next ==
    \/ Start
    \/ NextModule
    \/ Lookup
    \/ LookupRoot
    \/ GetLicense
    \/ GetBlob
    \/ TryFile
    \/ Fetch

Spec == Init /\ [][Next]_vars

-----------------------------------------------------------------------------
(* The parsers and the resolver called on their own *)

\* nothing of the program runs
idle ==
    <<githubAuth, modules, mi, gi, gs, blobUrl, fi, ui, licenseUrls, decoder, license,
      err, stage, log, stdout, stderr, panicmsg, given>>

InitCalls ==
    /\ pc = "call"
    /\ githubAuth = BasicAuth("", "")
    /\ modules = <<>>
    /\ mi = 0
    /\ gi = NoGoImport
    /\ gs = NoGoSource
    /\ blobUrl = ""
    /\ fi = 0
    /\ ui = 0
    /\ licenseUrls = <<>>
    /\ decoder = ""
    /\ license = ""
    /\ err = ""
    /\ stage = ""
    /\ log = <<>>
    /\ stdout = <<>>
    /\ stderr = <<>>
    /\ panicmsg = ""
    /\ call \in Calls
    /\ result = NoResult
    /\ given = <<>>

CallParseGoImport ==
    /\ pc = "call"
    /\ call.fn = "parseGoImport"
    /\ result' = parseGoImport(call.data)
    /\ pc' = "called"
    /\ UNCHANGED <<call, idle>>

CallParseGoSource ==
    /\ pc = "call"
    /\ call.fn = "parseGoSource"
    /\ result' = parseGoSource(call.data)
    /\ pc' = "called"
    /\ UNCHANGED <<call, idle>>

CallResolveFileURL ==
    /\ pc = "call"
    /\ call.fn = "resolveFileURL"
    /\ result' = resolveFileURL(call.g, call.src, call.file)
    /\ pc' = "called"
    /\ UNCHANGED <<call, idle>>

NextCalls ==
    \/ CallParseGoImport
    \/ CallParseGoSource
    \/ CallResolveFileURL

SpecCalls == InitCalls /\ [][NextCalls]_vars

-----------------------------------------------------------------------------
(* The requests of the module in hand, read off log *)

IsDiscovery(e) == e.op = "GET" /\ e.by = "lookup"
IsApi(e) == e.op = "GET" /\ e.by = "getLicense"
IsRaw(e) == e.op = "GET" /\ e.by = "tryGetLicense"
IsFileDelay(e) == e.op = "sleep" /\ e.by = "tryGetLicense"

\* the requests of lookup, of the API path and of tryGetLicense, in order
discoveryRequests == SelectSeq(log, IsDiscovery)
apiRequests == SelectSeq(log, IsApi)
rawRequests == SelectSeq(log, IsRaw)

Last(s) == s[Len(s)]

\* the candidate URLs of the module: file names in the order of the list,
\* within a file name the URLs in the order of the resolver
RECURSIVE candidatesFrom(_, _, _)
candidatesFrom(g, src, k) ==
    IF k > Len(httpLicenseFiles) THEN <<>>
    ELSE resolveFileURL(g, src, httpLicenseFiles[k]).urls \o candidatesFrom(g, src, k + 1)

\* the repositories lookup can name in the model; their candidate URLs and
\* what the resolver gives for the first file name, computed once
Repositories ==
    {<<GoImportOf[d].gi, GoSourceOf[d].gs>> : d \in DiscoveryDocs}
        \cup {<<GoImport(m, "git", "https://" \o m \o ".git"), NoGoSource>> :
                  m \in ModuleNames \cup {"github.com/golang/go"}}
        \cup {<<NoGoImport, NoGoSource>>}

candidatesOf == [r \in Repositories |-> candidatesFrom(r[1], r[2], 1)]
resolvedOf == [r \in Repositories |-> resolveFileURL(r[1], r[2], httpLicenseFiles[1])]

candidates ==
    IF <<gi, gs>> \in Repositories THEN candidatesOf[<<gi, gs>>]
    ELSE candidatesFrom(gi, gs, 1)

\* the resolver on the first file name: its error and its decoder are those of
\* every file name
resolved ==
    IF <<gi, gs>> \in Repositories THEN resolvedOf[<<gi, gs>>]
    ELSE resolveFileURL(gi, gs, httpLicenseFiles[1])

\* the file names the resolver fails for
failingFiles(g, src) ==
    {f \in 1..Len(httpLicenseFiles) : resolveFileURL(g, src, httpLicenseFiles[f]).err # ""}

failingFilesOf == [r \in Repositories |-> failingFiles(r[1], r[2])]

unresolvedFiles ==
    IF <<gi, gs>> \in Repositories THEN failingFilesOf[<<gi, gs>>]
    ELSE failingFiles(gi, gs)

\* the decoders on the contents of the model, computed once
decodedOf == [dec \in {"identity", "base64"}, b \in RawBodies |-> Decode(dec, b)]

decoded(dec, b) ==
    IF dec \in {"identity", "base64"} /\ b \in RawBodies THEN decodedOf[dec, b]
    ELSE Decode(dec, b)

\* lookup has returned to main; getLicense has returned to main
lookupReturned == stage # ""
returned == pc = "main" /\ stage = "getLicense"

\* the text of the error of exhaustion
exhausted == "no license found for module \"" \o module \o "\""

\* what tryGetLicense has to return after the requests of rawRequests
primaryOutcome ==
    LET res == resolved
    IN  IF res.err # ""
        THEN <<"", "no known license URL for module \"" \o module \o "\": " \o res.err>>
        ELSE IF rawRequests # <<>> /\ Last(rawRequests).ok
        THEN LET d == decoded(res.decoder, Last(rawRequests).body)
             IN  IF d.err # ""
                 THEN <<"", "error decoding \"" \o Last(rawRequests).url \o "\": " \o d.err>>
                 ELSE <<TrimSpace(d.str), "">>
        ELSE <<"", exhausted>>

-----------------------------------------------------------------------------
(* C1 *)

\* C1: tryGetLicense requests the candidates in the fixed order: the file names
\* in the order of the list, NOTICE first, and within a file name the URLs of
\* the resolver in order.  The result is the trimmed, decoded content of the
\* first candidate whose request succeeds, and no candidate after it is
\* requested.
C1_CandidateOrder ==
    /\ Len(rawRequests) <= Len(candidates)
    /\ \A k \in 1..Len(rawRequests) : rawRequests[k].url = candidates[k]
    /\ rawRequests # <<>> =>
          /\ httpLicenseFiles[1] = "NOTICE"
          /\ rawRequests[1].url = resolved.urls[1]
    /\ \A k \in 1..Len(rawRequests) : rawRequests[k].ok => k = Len(rawRequests)
    /\ (rawRequests # <<>> /\ Last(rawRequests).ok) =>
          /\ returned
          /\ Last(log) = Last(rawRequests)
          /\ LET d == decoded(resolved.decoder, Last(rawRequests).body)
             IN  d.err = "" => license = TrimSpace(d.str) /\ err = ""

\* the third candidate (LICENSE on the branch main) gave the license
C1_Witness ==
    /\ returned
    /\ Len(rawRequests) = 3
    /\ rawRequests[3].ok
    /\ rawRequests[3].url = "https://raw.githubusercontent.com/example/foo/main/LICENSE"
    /\ license = "MIT License"

-----------------------------------------------------------------------------
(* C2 *)

\* C2: a failed request for a candidate URL does not fail tryGetLicense: while
\* candidates are left it goes on, and what it asks next is the next candidate.
\* For the module example.org/foo at https://github.com/example/foo without
\* credentials, when the requests for NOTICE and for LICENSE on main fail and
\* the request for LICENSE on master succeeds, the result is the content of
\* that file and no error.
C2_FailedFetchMovesOn ==
    /\ (rawRequests # <<>> /\ ~Last(rawRequests).ok
            /\ Len(rawRequests) < Len(candidates)) =>
          /\ pc \in {"try", "fetch"}
          /\ stage = "lookup" /\ err = ""
          /\ pc = "fetch" => licenseUrls[ui] = candidates[Len(rawRequests) + 1]
          /\ pc = "try" =>
                /\ fi <= Len(httpLicenseFiles)
                /\ Len(rawRequests) = (fi - 1) * Len(resolved.urls)
    /\ (/\ Len(rawRequests) = 4
        /\ rawRequests[4].ok
        /\ module = "example.org/foo"
        /\ gi = GoImport("example.org/foo", "git", "https://github.com/example/foo")
        /\ ~IsSet(githubAuth)) =>
          /\ [k \in 1..4 |-> rawRequests[k].url] =
                << "https://raw.githubusercontent.com/example/foo/main/NOTICE",
                   "https://raw.githubusercontent.com/example/foo/master/NOTICE",
                   "https://raw.githubusercontent.com/example/foo/main/LICENSE",
                   "https://raw.githubusercontent.com/example/foo/master/LICENSE" >>
          /\ \A k \in 1..3 : ~rawRequests[k].ok
          /\ apiRequests = <<>>
          /\ returned
          /\ err = ""
          /\ license = TrimSpace(rawRequests[4].body)

\* the example: three failed requests, then LICENSE on master
C2_Witness ==
    /\ returned
    /\ module = "example.org/foo"
    /\ gi.RepoRoot = "https://github.com/example/foo"
    /\ ~IsSet(githubAuth)
    /\ Len(rawRequests) = 4
    /\ \A k \in 1..3 : ~rawRequests[k].ok
    /\ rawRequests[4].url = "https://raw.githubusercontent.com/example/foo/master/LICENSE"
    /\ rawRequests[4].ok
    /\ err = ""
    /\ license = "MIT License"

-----------------------------------------------------------------------------
(* C3 *)

\* the call for the tree listing failed: the request failed (transport error
\* or a status other than 200) or its response does not parse
listingFailed ==
    /\ apiRequests # <<>>
    /\ ~apiRequests[1].ok \/ ~Unmarshal(apiRequests[1].body).ok

\* C3: when getLicense takes the API path and the call for the tree listing
\* fails, getLicense does not return an error there: it runs tryGetLicense
\* and returns exactly what tryGetLicense returns.
C3_ListingFailureFallsBack ==
    listingFailed =>
        /\ Len(apiRequests) = 1
        /\ apiRequests[1].url = TreeURL(gi)
        /\ \/ pc \in {"try", "fetch"} /\ stage = "lookup" /\ err = ""
           \/ /\ returned
              /\ rawRequests # <<>>
              /\ <<license, err>> = primaryOutcome

\* an unparsable listing, and then the license of tryGetLicense
C3_Witness ==
    /\ apiRequests # <<>>
    /\ apiRequests[1].ok
    /\ ~Unmarshal(apiRequests[1].body).ok
    /\ returned
    /\ Last(rawRequests).ok
    /\ license = "MIT License"
    /\ err = ""

-----------------------------------------------------------------------------
(* C4 *)

\* the listing was fetched and parsed, and no entry of it is a license file
listingWithoutLicense ==
    /\ apiRequests # <<>>
    /\ apiRequests[1].ok
    /\ LET response == Unmarshal(apiRequests[1].body)
       IN  /\ response.ok
           /\ \A k \in 1..Len(response.Tree) : ~treeMatches(response.Tree[k])

\* C4: when getLicense takes the API path, the listing is fetched and parsed
\* and no entry of it matches a name of repoLicenseFiles, getLicense returns an
\* error and tryGetLicense is not run: no request follows the listing.
C4_MissingLicenseIsFinal ==
    listingWithoutLicense =>
        /\ returned
        /\ err = "api.github.com error: no license found"
        /\ license = ""
        /\ Last(log) = apiRequests[1]
        /\ Len(apiRequests) = 1
        /\ rawRequests = <<>>
        /\ SelectSeq(log, IsFileDelay) = <<>>

\* a listing that holds a README only
C4_Witness ==
    /\ listingWithoutLicense
    /\ Len(Unmarshal(apiRequests[1].body).Tree) = 1
    /\ returned
    /\ err # ""
    /\ rawRequests = <<>>

-----------------------------------------------------------------------------
(* C5 *)

\* every request of lookup for the module failed
allDiscoveryFailed ==
    /\ discoveryRequests # <<>>
    /\ \A k \in 1..Len(discoveryRequests) : ~discoveryRequests[k].ok

\* C5: lookup does not fail because of transport failures: when every request
\* it made has failed, it returns without error the location with the import
\* prefix of the module, the vcs git and the repo root https://<module>.git,
\* with no source-browsing information, and main goes on to getLicense.
C5_PrivateGuess ==
    (allDiscoveryFailed /\ lookupReturned) =>
        /\ gi = [ImportPrefix |-> module, Vcs |-> "git",
                 RepoRoot |-> "https://" \o module \o ".git"]
        /\ gs = [ImportPrefix |-> "", Home |-> "", Directory |-> "", File |-> ""]
        /\ stage = "lookup" => err = "" /\ pc \in {"getLicense", "blob", "try", "fetch"}
        /\ stage = "lookup" =>
              Last(stderr) # "unable to lookup module \"" \o module \o "\": "

\* both requests for a module of 4 segments failed, and getLicense is next
C5_Witness ==
    /\ allDiscoveryFailed
    /\ Len(discoveryRequests) = 2
    /\ module = "a.b/c/d/e"
    /\ pc = "getLicense"
    /\ stage = "lookup"
    /\ gi.RepoRoot = "https://a.b/c/d/e.git"

-----------------------------------------------------------------------------
(* C6 *)

\* the positions of the slashes of a path, and its first 3 segments
slashes(m) == {i \in 1..Len(m) : At(m, i) = "/"}
firstThree(m) == SubSeq(m, 1, Nth(slashes(m), 3) - 1)

\* C6: the first request of lookup is for the path of the module itself; a
\* second one, for the first 3 segments of the path, is made exactly when the
\* first failed and the path has more than 3 segments; when the second
\* succeeds, the directive is parsed from its response.
C6_DiscoveryRequests ==
    /\ pc = "lookup" => log = <<>>
    /\ discoveryRequests # <<>> =>
          discoveryRequests[1].url = "https://" \o module \o "?go-get=1"
    /\ pc = "lookup_root" =>
          /\ Len(discoveryRequests) = 1
          /\ ~discoveryRequests[1].ok
          /\ Cardinality(slashes(module)) + 1 > 3
    /\ lookupReturned =>
          /\ Len(discoveryRequests) \in {1, 2}
          /\ Len(discoveryRequests) = 2
                <=> ~discoveryRequests[1].ok /\ Cardinality(slashes(module)) + 1 > 3
          /\ Len(discoveryRequests) = 2 =>
                /\ discoveryRequests[2].url
                       = "https://" \o firstThree(module) \o "?go-get=1"
                /\ (discoveryRequests[2].ok /\ GoImportOf[discoveryRequests[2].body].ok) =>
                      /\ gi = GoImportOf[discoveryRequests[2].body].gi
                      /\ gs = GoSourceOf[discoveryRequests[2].body].gs

\* the request for a.b/c/d/e failed, the one for a.b/c/d named the repository
C6_Witness ==
    /\ stage = "lookup"
    /\ Len(discoveryRequests) = 2
    /\ discoveryRequests[2].url = "https://a.b/c/d?go-get=1"
    /\ discoveryRequests[2].ok
    /\ gi.RepoRoot = "https://gopkg.in/y.v2"
    /\ gs.Directory = "https://github.com/u/y/tree/v2.1{/dir}"

-----------------------------------------------------------------------------
(* C7 *)

\* the last request of lookup succeeded and its response holds no go-import
\* directive
noDirective ==
    /\ discoveryRequests # <<>>
    /\ Last(discoveryRequests).ok
    /\ ~GoImportOf[Last(discoveryRequests).body].ok

\* C7: when a request of lookup succeeds and its response holds no go-import
\* directive, lookup returns an error, which a transport failure never is:
\* no request for the module root follows, no repository is guessed, no
\* license is fetched and no block is written for the module.
C7_NoDirectiveIsFatal ==
    noDirective =>
        /\ pc = "main"
        /\ stage = "lookup"
        /\ err = "unrecognised import \"" \o module \o "\" (no go-import meta tags)"
        /\ log = discoveryRequests
        /\ gi.RepoRoot = ""
        /\ license = ""
        /\ Len(stdout) < mi
        /\ Last(stderr) = "unable to lookup module \"" \o module \o "\": "

\* the response for a module of 4 segments holds no directive: one request
C7_Witness ==
    /\ noDirective
    /\ module = "a.b/c/d/e"
    /\ Len(log) = 1
    /\ pc = "main"
    /\ err # ""

-----------------------------------------------------------------------------
(* C8 *)

\* C8: when the resolver fails for the repository (a vcs other than git, a
\* provider it does not know, a gopkg.in template it cannot parse),
\* tryGetLicense returns the error of the resolver at the first file name: it
\* makes no request, tries no later file name, and its error is not the
\* error of exhaustion.
C8_ResolverErrorIsFinal ==
    resolved.err # "" =>
        /\ pc # "fetch"
        /\ rawRequests = <<>>
        /\ apiRequests = <<>>
        /\ fi <= 1
        /\ returned =>
              /\ err = "no known license URL for module \"" \o module \o "\": "
                          \o resolved.err
              /\ err # exhausted
              /\ license = ""
              /\ fi = 1
              /\ SelectSeq(log, IsFileDelay) = <<Sleep("tryGetLicense", 1000)>>
              /\ Last(log) = Sleep("tryGetLicense", 1000)

\* a gopkg.in repository without a template: the error after one delay
C8_Witness ==
    /\ returned
    /\ gi.RepoRoot = "https://gopkg.in/y.v2"
    /\ err = "no known license URL for module \"" \o module \o "\": gopkg.in parse error"
    /\ rawRequests = <<>>

-----------------------------------------------------------------------------
(* C9 *)

\* a candidate was fetched and its content cannot be decoded
undecodable ==
    /\ rawRequests # <<>>
    /\ Last(rawRequests).ok
    /\ decoded(resolved.decoder, Last(rawRequests).body).err # ""

\* C9: when a candidate is fetched and its content cannot be decoded, which
\* only the base64 decoder of go.googlesource.com can cause, tryGetLicense
\* fails at once with the error of the decoding: no further URL or file name
\* is requested, and the error is not the error of exhaustion.
C9_DecodeErrorIsFinal ==
    undecodable =>
        /\ returned
        /\ license = ""
        /\ err = "error decoding \"" \o Last(rawRequests).url \o "\": "
                    \o decoded(resolved.decoder, Last(rawRequests).body).err
        /\ err # exhausted
        /\ Last(log) = Last(rawRequests)
        /\ resolved.decoder = "base64"
        /\ HasPrefix(gi.RepoRoot, "https://go.googlesource.com/")

\* the first candidate of a go.googlesource.com repository is not base64
C9_Witness ==
    /\ returned
    /\ Len(rawRequests) = 1
    /\ rawRequests[1].ok
    /\ rawRequests[1].body = " MIT License\n"
    /\ err = "error decoding \"https://go.googlesource.com/t/+/refs/heads/master/NOTICE?format=text\": illegal base64 data"

-----------------------------------------------------------------------------
(* C10 *)

\* the resolver succeeded for every file name, and every candidate URL of
\* every file name was requested, once and in order, and failed
allCandidatesFailed ==
    /\ unresolvedFiles = {}
    /\ Len(rawRequests) = Len(candidates)
    /\ \A k \in 1..Len(rawRequests) :
           rawRequests[k].url = candidates[k] /\ ~rawRequests[k].ok
    /\ \A j, k \in 1..Len(rawRequests) : rawRequests[j].url = rawRequests[k].url => j = k

\* C10: the error "no license found for module <module>" is returned exactly
\* when the resolver succeeded for every file name and every candidate URL of
\* every file name was requested, once and in order, and failed; the error
\* names the module.
C10_Exhaustion ==
    returned =>
        (err = "no license found for module \"" \o module \o "\""
            <=> allCandidatesFailed)

\* the 14 candidates of a GitHub repository have failed
C10_Witness ==
    /\ returned
    /\ module = "example.org/foo"
    /\ err = "no license found for module \"example.org/foo\""
    /\ Len(rawRequests) = 14
    /\ \A k \in 1..14 : ~rawRequests[k].ok

-----------------------------------------------------------------------------
(* C11 *)

\* what base64 makes of the contents of the blobs of the model, computed once
blobDecodedOf == [d \in ApiDocs |-> Base64DecodeString(d.Content)]

\* the blob was fetched and parsed, and its encoding is neither utf-8 nor
\* base64, or it is base64 and the content does not decode
blobUndecodable ==
    /\ Len(apiRequests) >= 2
    /\ apiRequests[2].ok
    /\ LET blob == Unmarshal(apiRequests[2].body)
       IN  /\ blob.ok
           /\ ~EqualFold(blob.Encoding, "utf-8")
           /\ EqualFold(blob.Encoding, "base64") => blobDecodedOf[blob].err # ""

-----------------------------------------------------------------------------
(* C12 *)

\* the repository is a git repository of GitHub and the credentials have a
\* user name and a token
apiConditions ==
    /\ gi.Vcs = "git"
    /\ HasPrefix(gi.RepoRoot, "https://github.com/")
    /\ githubAuth.Username # ""
    /\ githubAuth.Token # ""

\* getLicense has chosen its path
pathChosen == pc \in {"blob", "try", "fetch"} \/ returned

\* what getLicense and tryGetLicense have done so far
licenseLog == SelectSeq(log, LAMBDA e : e.by # "lookup")

\* the diagnostics of the module in hand
moduleDiagnostics ==
    LET marks == {k \in 1..Len(stderr) : HasPrefix(stderr[k], "> ")}
    IN  IF marks = {} THEN <<>> ELSE SubSeq(stderr, Max(marks) + 1, Len(stderr))

\* C12: getLicense makes a request to the API exactly when the vcs is git, the
\* repo root starts with https://github.com/ and the credentials have both a
\* user name and a token.  Otherwise no API request is made, nothing is
\* reported about the API or the credentials, and getLicense goes straight to
\* tryGetLicense, whose result it returns.
C12_ApiOnlyWithCredentials ==
    /\ apiRequests # <<>> => apiConditions
    /\ pathChosen => (apiRequests # <<>> <=> apiConditions)
    /\ (pathChosen /\ ~apiConditions) =>
          /\ \A k \in 1..Len(licenseLog) : licenseLog[k].by = "tryGetLicense"
          /\ \A k \in 1..Len(moduleDiagnostics) :
                 ~HasPrefix(moduleDiagnostics[k], "api.github.com error")
          /\ returned => <<license, err>> = primaryOutcome

\* a GitHub repository, credentials with a user name and no token: the
\* license comes from tryGetLicense
C12_Witness ==
    /\ returned
    /\ gi.RepoRoot = "https://github.com/example/foo"
    /\ githubAuth = [Username |-> "user", Token |-> ""]
    /\ apiRequests = <<>>
    /\ Len(rawRequests) >= 1
    /\ err = ""
    /\ license = "MIT License"

-----------------------------------------------------------------------------
(* C13 *)

\* the positions in stderr of the lines "> module" that main writes at the
\* head of its loop, and the diagnostics written for the i-th module
moduleMarks == {k \in 1..Len(stderr) : HasPrefix(stderr[k], "> ")}

diagnosticsOf(i) ==
    SubSeq(stderr, Nth(moduleMarks, i) + 1,
           IF i < Cardinality(moduleMarks) THEN Nth(moduleMarks, i + 1) - 1
           ELSE Len(stderr))

\* the i-th module is done with and failed (its lookup or its license)
failedAt(i) ==
    \E k \in 1..Len(diagnosticsOf(i)) : HasPrefix(diagnosticsOf(i)[k], "unable to ")

\* the modules done with whose lookup and license both succeeded
succeededModules ==
    {i \in 1..mi : (i < mi \/ pc \in {"main", "done"}) /\ ~failedAt(i)}

\* b is the block of module m: the module, a blank line, a trimmed text, a
\* blank line, a line of 80 times "-", a blank line
isBlock(b, m) ==
    /\ Len(b) >= Len(m) + 86
    /\ SubSeq(b, 1, Len(m) + 2) = m \o "\n\n"
    /\ SubSeq(b, Len(b) - 83, Len(b) - 82) = "\n\n"
    /\ \A j \in (Len(b) - 81)..(Len(b) - 2) : At(b, j) = "-"
    /\ SubSeq(b, Len(b) - 1, Len(b)) = "\n\n"
    /\ LET text == SubSeq(b, Len(m) + 3, Len(b) - 84)
       IN  TrimSpace(text) = text

\* C13: stdout holds, for each module whose lookup and license both succeeded,
\* exactly one block (module, blank line, trimmed license, blank line, 80 times
\* "-", blank line), in the order of the modules; a module that failed has a
\* diagnostic and no block, and main goes on with the next module.
C13_OutputBlocks ==
    /\ Cardinality(moduleMarks) = mi
    /\ Len(stdout) = Cardinality(succeededModules)
    /\ \A k \in 1..Len(stdout) : isBlock(stdout[k], modules[Nth(succeededModules, k)])
    /\ (pc = "main" /\ mi >= 1) =>
          /\ failedAt(mi) <=> err # ""
          /\ err = "" => /\ stage = "getLicense"
                         /\ license = TrimSpace(license)
                         /\ Last(stdout) = module \o "\n\n" \o license \o "\n\n"
                                \o "----------------------------------------"
                                \o "----------------------------------------" \o "\n\n"
    /\ pc = "done" => mi = Len(modules)
    /\ pc = "panic" => mi = 0 \/ HasPrefix(modules[mi], "-")

\* the first module failed, the second one has its block, and main is done
C13_Witness ==
    /\ pc = "done"
    /\ modules = <<"example.org/foo", "github.com/golang/go">>
    /\ failedAt(1)
    /\ stdout = <<"github.com/golang/go\n\nMIT License\n\n"
                      \o "----------------------------------------"
                      \o "----------------------------------------" \o "\n\n">>

-----------------------------------------------------------------------------
(* Claims about the parsers and the resolver called on their own, under    *)
(* SpecCalls                                                               *)

calledFn(fn) == pc = "called" /\ call.fn = fn

\* C14: parseGoImport finds the go-import directive and returns its three
\* content tokens in order and unchanged as import prefix, vcs and repo root,
\* whatever the presentation of the directive: name before content or content
\* before name, lower or mixed case of the tag and attribute names, no white
\* space or several white space characters around "=" and the tag delimiters,
\* one or several white space characters between the tokens, ">" or "/>".
C14_PresentationIndependent ==
    (calledFn("parseGoImport") /\ Len(call.toks) = 3) =>
        result = [gi |-> GoImport(call.toks[1], call.toks[2], call.toks[3]), ok |-> TRUE]

\* the source hut order, mixed case, white space everywhere, "/>", and a token
\* with upper case letters that comes back unchanged
C14_Witness ==
    /\ calledFn("parseGoImport")
    /\ call.reversed /\ call.mixed /\ call.pad = " \n  " /\ call.sep = "  "
    /\ call.close = "/>"
    /\ result.ok
    /\ result.gi = GoImport("a.b/C", "hg", "https://x.y/Z.git")

\* C15: parseGoSource finds the go-source directive and returns its four
\* content tokens in order as import prefix, home, directory and file, with
\* the tolerance of parseGoImport: whatever the attribute order, the letter
\* case of the names, the white space around each "=" and between the tokens,
\* and the closing form.
C15_Claimed ==
    (calledFn("parseGoSource") /\ Len(call.toks) = 4) =>
        result = [gs |-> GoSource(call.toks[1], call.toks[2], call.toks[3], call.toks[4]),
                  ok |-> TRUE]

\* C16: for vcs git, resolveFileURL of a root at https://github.com/ returns
\* two URLs at raw.githubusercontent.com and of a root at https://gitlab.com/
\* two URLs under the root, the branch main first and the branch master
\* second, both for the repository path without a trailing ".git" and for the
\* file asked for, with the identity decoder; for the roots at
\* go.googlesource.com, git.sr.ht and gopkg.in it returns one URL when it
\* returns any.
C16_TwoBranches ==
    (calledFn("resolveFileURL") /\ call.g.Vcs = "git") =>
        /\ call.host = "https://github.com/" =>
               result = [urls |-> <<"https://raw.githubusercontent.com/" \o call.path
                                        \o "/main/" \o call.file,
                                    "https://raw.githubusercontent.com/" \o call.path
                                        \o "/master/" \o call.file>>,
                         decoder |-> "identity", err |-> ""]
        /\ call.host = "https://gitlab.com/" =>
               result = [urls |-> <<"https://gitlab.com/" \o call.path
                                        \o "/-/raw/main/" \o call.file,
                                    "https://gitlab.com/" \o call.path
                                        \o "/-/raw/master/" \o call.file>>,
                         decoder |-> "identity", err |-> ""]
        /\ call.host \in {"https://go.googlesource.com/", "https://git.sr.ht/",
                          "https://gopkg.in/"} =>
               \/ result.err = "" /\ Len(result.urls) = 1
               \/ result.err # "" /\ result.urls = <<>>
        /\ call.host = "https://example.org/" => result.err # "" /\ result.urls = <<>>

\* a github root that ends in ".git"
C16_Witness ==
    /\ calledFn("resolveFileURL")
    /\ call.g = GoImport("a.b/y.v2", "git", "https://github.com/u/y.v2.git")
    /\ call.file = "LICENSE.md"
    /\ result.urls = <<"https://raw.githubusercontent.com/u/y.v2/main/LICENSE.md",
                       "https://raw.githubusercontent.com/u/y.v2/master/LICENSE.md">>
    /\ result.decoder = "identity"

\* the directory templates of the form
\* https://github.com/OWNER/REPO/<segment>/BRANCH{...}
githubTemplates ==
    {"https://github.com/u/y/tree/v2.1{/dir}", "https://github.com/O/R/tree/v3{/dir}"}

gopkgCall ==
    calledFn("resolveFileURL") /\ call.g.Vcs = "git" /\ call.host = "https://gopkg.in/"

\* C17: for a root at https://gopkg.in/, resolveFileURL returns the error
\* "gopkg.in parse error" and no URL whenever there is no go-source
\* information or its directory template is not of the form
\* https://github.com/OWNER/REPO/<segment>/BRANCH{...}: a template on another
\* host, one with too few segments, one without "{".
C17_Claimed ==
    (gopkgCall /\ call.src.Directory \notin githubTemplates) =>
        result = ResolveError("gopkg.in parse error")

-----------------------------------------------------------------------------
(* Claims about the two lists of file names and the listing, under Spec *)

Range(s) == {s[i] : i \in 1..Len(s)}

\* C18: every name of httpLicenseFiles, the names the primary path asks for,
\* is a name of repoLicenseFiles, the names the listing is searched for.
\* Stated of the names the primary path comes to ask for, which are all of them
\* when every request fails.
C18_Claimed ==
    pc = "fetch" => httpLicenseFiles[fi] \in Range(repoLicenseFiles)

\* the places in repoLicenseFiles of the names a tree entry matches
placesOf(t) == {n \in 1..Len(repoLicenseFiles) : EqualFold(t.Path, repoLicenseFiles[n])}

\* the blobs of a listing that match a name, and the URL of the one that
\* matches the earliest name
matchingBlobs(tree) ==
    {k \in 1..Len(tree) : tree[k].Type = "blob" /\ placesOf(tree[k]) # {}}

earliestNamed(tree) ==
    LET hits == matchingBlobs(tree)
        best == CHOOSE k \in hits :
                    \A j \in hits :
                        \/ Min(placesOf(tree[k])) < Min(placesOf(tree[j]))
                        \/ Min(placesOf(tree[k])) = Min(placesOf(tree[j])) /\ k <= j
    IN  tree[best].Url

\* the listing getLicense has just read
listed == Unmarshal(Last(log).body).Tree

\* C19: when several blobs of the listing match names of repoLicenseFiles, the
\* blob getLicense fetches is the one that matches the earliest name of the
\* list, whatever the order of the entries in the listing.
C19_Claimed ==
    pc = "blob" => blobUrl = earliestNamed(listed)

-----------------------------------------------------------------------------
(* C20 *)

\* the location lookup guesses for a private repository
privateGuess == GoImport(module, "git", "https://" \o module \o ".git")

\* the text of the error of lookup
unrecognised == "unrecognised import \"" \o module \o "\" (no go-import meta tags)"

\* C20, as claimed: when a response of lookup holds no go-import directive,
\* or one with a number of tokens other than three, lookup recovers: it asks
\* the module root next or returns the guess for a private repository, and
\* does not fail.
C20_Claimed ==
    noDirective =>
        \/ pc = "lookup_root"
        \/ lookupReturned /\ gi = privateGuess /\ ~(stage = "lookup" /\ err # "")

\* C20, amended: when a response of lookup holds no go-import directive, or
\* one with a number of tokens other than three, lookup fails with the error
\* "unrecognised import": that response was its last request, and it returns
\* no location.  The request for the module root and the guess for a private
\* repository follow failed requests only.
C20_ParseFailureIsTerminal ==
    /\ noDirective =>
           /\ pc = "main" /\ stage = "lookup" /\ err = unrecognised
           /\ Last(log) = Last(discoveryRequests)
           /\ gi = GoImport("", "", "")
    /\ \A k \in 1..(Len(discoveryRequests) - 1) : ~discoveryRequests[k].ok
    /\ (lookupReturned /\ gi = privateGuess) => allDiscoveryFailed

\* the response for a module of 4 segments holds a directive of two tokens:
\* lookup has failed after one request
C20_Witness ==
    /\ noDirective
    /\ Last(discoveryRequests).body
           = "<meta name=\"go-import\" content=\"example.org/foo git\">"
    /\ module = "a.b/c/d/e"
    /\ Len(log) = 1
    /\ stage = "lookup"
    /\ err = unrecognised

-----------------------------------------------------------------------------
(* C21 *)

\* C21: parseGoImport returns a location only for a directive whose content
\* has exactly three tokens, and parseGoSource only for one whose content has
\* exactly four; for content with fewer or more tokens they return not found,
\* never a location made of a part of the content or of other text.
C21_Claimed ==
    /\ (calledFn("parseGoImport") /\ Len(call.toks) # 3) => ~result.ok
    /\ (calledFn("parseGoSource") /\ Len(call.toks) # 4) => ~result.ok

-----------------------------------------------------------------------------
(* C22 *)

\* owner, repository and branch of the templates of the form
\* https://github.com/OWNER/REPO/tree/BRANCH{/dir}
ownerRepoBranch ==
    [t \in githubTemplates |->
        IF t = "https://github.com/u/y/tree/v2.1{/dir}" THEN "u/y/v2.1" ELSE "O/R/v3"]

\* C22: for a root at https://gopkg.in/ and a directory template
\* https://github.com/OWNER/REPO/tree/BRANCH{/dir}, resolveFileURL returns for
\* every file one URL, https://raw.githubusercontent.com/OWNER/REPO/BRANCH/<file>,
\* with the identity decoder and no error: owner, repository and branch are
\* those of the template, none is taken from the root.
C22_GopkgTemplate ==
    (gopkgCall /\ call.src.Directory \in githubTemplates) =>
        result = [urls |-> <<"https://raw.githubusercontent.com/"
                                 \o ownerRepoBranch[call.src.Directory] \o "/" \o call.file>>,
                  decoder |-> "identity", err |-> ""]

\* the root names the version v2, the template the branch v2.1
C22_Witness ==
    /\ gopkgCall
    /\ call.g.RepoRoot = "https://gopkg.in/u/y.v2"
    /\ call.src.Directory = "https://github.com/u/y/tree/v2.1{/dir}"
    /\ call.file = "LICENSE.md"
    /\ result.urls = <<"https://raw.githubusercontent.com/u/y/v2.1/LICENSE.md">>
    /\ result.err = ""

-----------------------------------------------------------------------------
(* C23 *)

\* the three kinds of error of resolveFileURL
notImplemented == "vcs \"" \o call.g.Vcs \o "\" not implemented"
notSupported == "repo \"" \o call.g.RepoRoot \o "\" not supported (please open an issue)"
templateError == "gopkg.in parse error"

\* C23: resolveFileURL looks at the vcs first: for a vcs other than git it
\* returns the error "not implemented" whatever the root.  For the vcs git the
\* root decides: go.googlesource.com gives the base64 decoder; git.sr.ht,
\* gopkg.in, github.com and gitlab.com give the identity decoder or, for
\* gopkg.in alone, the template error; a root at no such host gives the error
\* "not supported", which is neither of the other two errors.
C23_VcsThenProvider ==
    calledFn("resolveFileURL") =>
        /\ call.g.Vcs # "git" => result = ResolveError(notImplemented)
        /\ call.g.Vcs = "git" =>
            /\ call.host = "https://go.googlesource.com/" =>
                   result.err = "" /\ result.decoder = "base64"
            /\ call.host \in {"https://git.sr.ht/", "https://github.com/",
                              "https://gitlab.com/"} =>
                   result.err = "" /\ result.decoder = "identity"
            /\ call.host = "https://gopkg.in/" =>
                   \/ result.err = "" /\ result.decoder = "identity"
                   \/ result = ResolveError(templateError)
            /\ call.host = "https://example.org/" =>
                   /\ result = ResolveError(notSupported)
                   /\ notSupported \notin {notImplemented, templateError}
        /\ result.err # "" => result.urls = <<>> /\ result.decoder = ""

\* a root at github.com with the vcs hg
C23_Witness ==
    /\ calledFn("resolveFileURL")
    /\ call.g.Vcs = "hg"
    /\ call.host = "https://github.com/"
    /\ result.err = "vcs \"hg\" not implemented"
    /\ result.urls = <<>>

-----------------------------------------------------------------------------
(* C24 *)

\* getLicense has read a listing that json.Unmarshal accepts
listingRead ==
    /\ apiRequests # <<>>
    /\ apiRequests[1].ok
    /\ Unmarshal(apiRequests[1].body).ok

\* the URL ends in the file name as it is spelled in httpLicenseFiles
spelledAsListed(url) ==
    \E n \in 1..Len(httpLicenseFiles) :
        \/ HasSuffix(url, "/" \o httpLicenseFiles[n])
        \/ HasSuffix(url, "/" \o httpLicenseFiles[n] \o "?format=text")

\* C24: an entry of the listing is taken for a license file if and only if
\* its type is blob and its path is, but for the case of letters, a name of
\* repoLicenseFiles: getLicense goes on to fetch an entry exactly when the
\* listing has such an entry, the entry it fetches is one of them, and an
\* entry of another type is never fetched.  The primary path asks for every
\* file name as it is spelled in httpLicenseFiles.
C24_TreeMatch ==
    /\ listingRead =>
           LET tree == Unmarshal(apiRequests[1].body).Tree
               hits == {tree[k].Url : k \in matchingBlobs(tree)}
           IN  IF hits = {}
               THEN /\ Len(apiRequests) = 1
                    /\ returned
                    /\ err = "api.github.com error: no license found"
               ELSE /\ blobUrl \in hits
                    /\ pc = "blob" \/ (Len(apiRequests) = 2 /\ apiRequests[2].url = blobUrl)
    /\ rawRequests # <<>> => spelledAsListed(Last(rawRequests).url)

\* the listing has a directory LICENSE and a blob license.TXT: the blob is
\* fetched
C24_Witness ==
    /\ listingRead
    /\ Unmarshal(apiRequests[1].body).Tree
           = <<APITree("LICENSE", "tree", "https://api.github.com/t/1"),
               APITree("license.TXT", "blob", "https://api.github.com/b/2")>>
    /\ Len(apiRequests) = 2
    /\ apiRequests[2].url = "https://api.github.com/b/2"

-----------------------------------------------------------------------------
(* C25 *)

IsGet(e) == e.op = "GET"
requests == SelectSeq(log, IsGet)

\* the numbers of requests for one module are bounded, and the latest request
\* of the primary path is for a candidate URL
requestsBounded ==
    /\ Len(discoveryRequests) <= 2
    /\ Len(apiRequests) <= 2
    /\ rawRequests # <<>> =>
           /\ Len(rawRequests) <= Len(candidates)
           /\ \E c \in 1..Len(candidates) : Last(rawRequests).url = candidates[c]

\* the requests before the latest one that were for the same URL
repeated(reqs) ==
    {j \in 1..(Len(reqs) - 1) : reqs[j].url = Last(reqs).url}

\* the latest request is the one for the blob, whose URL the listing gives
blobRequested == Len(apiRequests) = 2 /\ Last(requests) = apiRequests[2]

\* C25, as claimed: a module is processed with at most 2 requests of lookup,
\* at most 2 requests to the API and at most one request for each candidate
\* URL of each file name, and no URL is requested twice for the module: each
\* request, when it is made, is for a URL not requested before.
C25_Claimed ==
    /\ requestsBounded
    /\ repeated(requests) = {}

\* C25, amended: the same bounds; no URL is requested twice for the module,
\* the request for the blob apart, which goes to the URL the listing names
\* and so can be a URL that is requested at another time.
C25_NoRetry ==
    /\ requestsBounded
    /\ LET reqs == requests
       IN  \A j \in repeated(reqs) :
               \/ blobRequested
               \/ Len(apiRequests) = 2 /\ reqs[j] = apiRequests[2]

\* two requests of lookup, two to the API, and after the fallback every
\* candidate URL of the primary path: 18 requests, and the module is done
C25_Witness ==
    /\ returned
    /\ Len(discoveryRequests) = 2
    /\ Len(apiRequests) = 2
    /\ Len(rawRequests) = 14
    /\ Len(requests) = 18

-----------------------------------------------------------------------------
(* C26 *)

\* what the processing of a module writes and reads, apart from the output
perModule == <<gi, gs, blobUrl, fi, ui, licenseUrls, decoder, license, err, stage, log>>

\* its value before anything is processed
untouched ==
    <<NoGoImport, NoGoSource, "", 0, 0, <<>>, "", "", "", "", <<>>>>

\* C26: the credentials are written by the start of main only and the list of
\* modules likewise: no step of the processing of a module changes them.
\* When the processing of a module begins, nothing of what the processing of
\* an earlier module wrote is left but the output: the module is processed
\* from its name, the credentials and the responses to its own requests.
C26_NoSharedState ==
    /\ [][pc # "start" => githubAuth' = githubAuth /\ modules' = modules]_vars
    /\ [](pc = "lookup" => perModule = untouched)
    /\ [][pc \notin {"start", "main"} => mi' = mi]_vars

\* the second module begins after the first one was written to the output
C26_Witness ==
    /\ pc = "lookup"
    /\ mi = 2
    /\ Len(stdout) = 1
    /\ IsSet(githubAuth)
    /\ perModule = untouched

-----------------------------------------------------------------------------
(* C27 *)

fileDelays == SelectSeq(log, IsFileDelay)

IsApiDelay(e) == e.op = "sleep" /\ e.by = "getLicense"
apiDelays == SelectSeq(log, IsApiDelay)

\* the URL is one for the file name
endsIn(url, name) ==
    HasSuffix(url, "/" \o name) \/ HasSuffix(url, "/" \o name \o "?format=text")

\* C27: tryGetLicense sleeps one second before each file name it tries: as
\* many delays have passed as file names were begun, the first included; the
\* delay comes before the resolver, so that a resolver error is returned
\* after one delay and no request; every request of tryGetLicense is for the
\* file name of the latest delay, and the entry before the first request for
\* a file name is its delay.  getLicense sleeps 2460 ms once, directly before
\* the request for the listing.
C27_DelayBeforeEachFile ==
    /\ \A k \in 1..Len(fileDelays) : fileDelays[k].ms = 1000
    /\ pc = "fetch" => Len(fileDelays) = fi
    /\ pc = "try" => Len(fileDelays) = fi - 1
    /\ (log # <<>> /\ IsRaw(Last(log))) =>
           /\ fileDelays # <<>>
           /\ endsIn(Last(log).url, httpLicenseFiles[Len(fileDelays)])
           /\ \/ IsFileDelay(log[Len(log) - 1])
              \/ /\ IsRaw(log[Len(log) - 1])
                 /\ endsIn(log[Len(log) - 1].url, httpLicenseFiles[Len(fileDelays)])
    /\ (log # <<>> /\ IsFileDelay(Last(log)) /\ Len(fileDelays) > 1) =>
           IsRaw(log[Len(log) - 1]) /\ ~log[Len(log) - 1].ok
    /\ (returned /\ resolved.err # "") => Len(fileDelays) = 1 /\ rawRequests = <<>>
    /\ Len(apiDelays) = (IF apiRequests = <<>> THEN 0 ELSE 1)
    /\ (log # <<>> /\ IsApi(Last(log)) /\ Len(apiRequests) = 1) =>
           log[Len(log) - 1] = Sleep("getLicense", 2460)

\* the API fell back and every candidate failed: one delay before the
\* listing, seven before the file names
C27_Witness ==
    /\ returned
    /\ Len(apiDelays) = 1
    /\ Len(apiRequests) = 2
    /\ Len(fileDelays) = 7
    /\ Len(rawRequests) = 14
    /\ IsFileDelay(log[Len(log) - 2])

-----------------------------------------------------------------------------
(* C28 *)

\* C28: no request of lookup and no request of tryGetLicense carries the
\* credentials, whether they are set or not; the requests that carry them are
\* requests of getLicense to the API, the one for the listing and the one for
\* the blob, and these always do.
C28_CredentialsOnlyToApi ==
    \A k \in 1..Len(log) :
        /\ (IsDiscovery(log[k]) \/ IsRaw(log[k])) => ~log[k].auth
        /\ log[k].auth => IsApi(log[k]) /\ IsSet(githubAuth)
        /\ IsApi(log[k]) => log[k].auth

\* with credentials set: two requests of lookup, the listing and the blob,
\* then the fallback
C28_Witness ==
    /\ IsSet(githubAuth)
    /\ returned
    /\ Len(discoveryRequests) = 2
    /\ Len(apiRequests) = 2
    /\ apiRequests[2].auth
    /\ rawRequests # <<>>
    /\ ~Last(rawRequests).auth

-----------------------------------------------------------------------------
(* C29 *)

stdlib == "github.com/golang/go"

\* the modules whose processing has begun, as main announces them on stderr
announced == [i \in 1..Cardinality(moduleMarks) |-> stderr[Nth(moduleMarks, i)]]

occurrences(list, m) == Cardinality({k \in 1..Len(list) : list[k] = m})

\* C29: the list main goes through is the list it was given, in order, with
\* github.com/golang/go appended once as the last element, also when the list
\* given has it already; the modules are processed in the order of this list,
\* all of them when the run comes to its end.  The output can therefore hold a
\* block for a module that was not given, and two blocks for that module.
C29_StdlibAppended ==
    (pc # "start" /\ panicmsg # "error: go list error") =>
        /\ modules = given \o <<stdlib>>
        /\ occurrences(modules, stdlib) = occurrences(given, stdlib) + 1
        /\ Len(announced) = mi
        /\ \A i \in 1..mi : announced[i] = "> " \o modules[i] \o "\n"
        /\ pc = "done" => mi = Len(modules)
        /\ \A k \in 1..Len(stdout) :
               \E i \in 1..mi : HasPrefix(stdout[k], modules[i] \o "\n\n")

\* the list given is github.com/golang/go alone: two blocks for it
C29_Witness ==
    /\ pc = "done"
    /\ given = <<stdlib>>
    /\ modules = <<stdlib, stdlib>>
    /\ Len(stdout) = 2
    /\ HasPrefix(stdout[1], stdlib \o "\n\n")
    /\ HasPrefix(stdout[2], stdlib \o "\n\n")

-----------------------------------------------------------------------------
(* C30 *)

\* the place of the first module of the list that starts with "-", 0 without one
firstDash ==
    LET dashes == {k \in 1..Len(modules) : HasPrefix(modules[k], "-")}
    IN  IF dashes = {} THEN 0 ELSE Min(dashes)

\* what holds of a list with such a module
abortedAtDash ==
    /\ (firstDash > 0 /\ pc # "start") => mi <= firstDash
    /\ (firstDash > 0 /\ mi = firstDash) =>
           /\ pc = "panic"
           /\ panicmsg = "error: unrecognised argument \"" \o modules[firstDash] \o "\""
           /\ log = <<>>
           /\ Last(stderr) = "> " \o modules[firstDash] \o "\n"
           /\ Len(stdout) = Cardinality({i \in 1..(firstDash - 1) : ~failedAt(i)})
    /\ pc = "panic" =>
           \/ panicmsg = "error: go list error" /\ mi = 0
           \/ firstDash > 0 /\ mi = firstDash

\* C30: a module that starts with "-" is no failure of that module alone.
\* When the loop of main comes to it, main panics with the error
\* "unrecognised argument": no request has been made for it, no diagnostic
\* "unable to" is written for it, the modules after it are never begun, and
\* the blocks of the modules before it are on stdout as they were when the
\* loop came to it, one for each that succeeded.  Until then the run goes on
\* as for any list.
C30_DashAborts ==
    /\ []abortedAtDash
    /\ [][pc = "panic" => UNCHANGED vars]_vars

\* the second argument starts with "-", the first module has its block
C30_Witness ==
    /\ pc = "panic"
    /\ modules = <<"example.org/foo", "-v", "github.com/golang/go">>
    /\ mi = 2
    /\ Len(stdout) = 1
    /\ HasPrefix(stdout[1], "example.org/foo\n\n")

====
